---- MODULE Spec2Model ----
(***************************************************************************)
(* Agent orchestration engine: the run executor (executeRun), the agent    *)
(* resolver (findSimilarAgent / spawnAgentsFromPlan), the event emitter    *)
(* (nextSeq / emit) and the JSON-RPC handlers that start runs and edit     *)
(* agents.  The store is the collections agents, agent_versions, sessions, *)
(* runs and events.  Every RPC request is a task; a task that executes a   *)
(* run carries the stack of executeRun activations (children run inline,   *)
(* depth first).  A task is suspended at every store operation or model    *)
(* call that another task can observe, so each action is the code between  *)
(* two such points.                                                        *)
(***************************************************************************)
EXTENDS Integers, Sequences, FiniteSets, TLC

VARIABLES
  agents,         \* collection agents: sequence of documents, _id = index
  agentVersions,  \* collection agent_versions, _id = index
  sessions,       \* number of session documents, _id = 1..sessions
  runs,           \* collection runs, _id = index
  events,         \* collection events, grouped by runId, in insertion order
  tasks,          \* the RPC requests in flight and their call stacks
  faults,         \* number of store insertions of an event rejected so far
  hist            \* observer: the last plan resolved, the executeRun calls returned

vars == <<agents, agentVersions, sessions, runs, events, tasks, faults, hist>>

-----------------------------------------------------------------------------
(* Program constants.                                                      *)

BOOTSTRAP_AGENT_SLUG == "bootstrap"
DIRECTORY_AGENT_SLUG == "a2a_directory"
\* the prompt text is abstracted to one letter between the blanks the
\* template literal starts and ends with
BOOTSTRAP_PROMPT == <<" ", "B", " ">>
SpawnLimit == 10
DefaultMaxDepth == 2
DefaultMaxChildren == 3

-----------------------------------------------------------------------------
(* Verification bounds.                                                    *)

MaxRuns == 4        \* run documents, specification Spec
MaxRpc == 2         \* RPC requests, specification Spec
MaxSessions == 1    \* session documents
MaxRunsFault == 3   \* run documents, specification SpecFault
MaxFaults == 1      \* rejected event insertions, specification SpecFault
MaxRunsCap == 12    \* run documents, specification SpecCap
MaxRunsRoot == 5    \* run documents, specification SpecRoot
MaxRunsConc == 3    \* run documents, specification SpecConc
MaxRpcConc == 3     \* RPC requests, specification SpecConc
MaxSince == 3       \* the largest sinceSeq of a run.events request

-----------------------------------------------------------------------------
(* Strings.  A prompt or a name is a sequence of characters, so that       *)
(* trim() and the case-insensitive match are computed, not assumed.        *)

RECURSIVE TrimLeft(_)
TrimLeft(s) == IF s = <<>> \/ Head(s) # " " THEN s ELSE TrimLeft(Tail(s))

RECURSIVE TrimRight(_)
TrimRight(s) ==
  IF s = <<>> \/ s[Len(s)] # " " THEN s ELSE TrimRight(SubSeq(s, 1, Len(s) - 1))

Trim(s) == TrimRight(TrimLeft(s))

LowerChar(ch) == IF ch = "A" THEN "a" ELSE IF ch = "C" THEN "c" ELSE ch
Lower(s) == [i \in DOMAIN s |-> LowerChar(s[i])]

\* one character of the pattern against one character of the name, flag "i":
\* "." stands for any character, every other character of the model for itself
RegexChar(p, ch) == p = "." \/ LowerChar(p) = LowerChar(ch)

\* new RegExp(`^${spec.name}$`, "i") against agent.name: spec.name is the
\* pattern, unescaped
NameMatches(agentName, specName) ==
  /\ Len(agentName) = Len(specName)
  /\ \A i \in DOMAIN specName : RegexChar(specName[i], agentName[i])

Range(s) == {s[i] : i \in DOMAIN s}

RECURSIVE SeqFilterNonBlank(_)
SeqFilterNonBlank(s) ==
  IF s = <<>> THEN <<>>
  ELSE IF Head(s) \in {"", " "} THEN SeqFilterNonBlank(Tail(s))
       ELSE <<Head(s)>> \o SeqFilterNonBlank(Tail(s))

\* routingUtils.normalizeStringArray: keeps the strings whose trim is non-empty
normalizeStringArray(value) == SeqFilterNonBlank(value)

RECURSIVE Dedup(_, _)
Dedup(s, seen) ==
  IF s = <<>> THEN <<>>
  ELSE IF Head(s) \in seen THEN Dedup(Tail(s), seen)
       ELSE <<Head(s)>> \o Dedup(Tail(s), seen \cup {Head(s)})

\* a merge that keeps every element of both arrays
ConcatStringArrays(a, b) == a \o b

\* routingUtils.mergeStringArrays: Array.from(new Set([...a, ...b]))
mergeStringArrays(a, b) == Dedup(a \o b, {})

\* routingUtils.normalizeAgentRole
normalizeAgentRole(role) ==
  IF role \in {"system", "router", "specialist"} THEN role ELSE ""

\* routingUtils.inferRoleFromTags
inferRoleFromTags(tags) ==
  IF "router" \in Range(tags) \/ "domain-router" \in Range(tags) THEN "router"
  ELSE IF "specialist" \in Range(tags) THEN "specialist"
  ELSE ""

\* routingUtils.inferRoleFromLabel: the label is `${name} ${slug}`; of the
\* slugs and names of the model only these contain the words
inferRoleFromLabel(name, slug) ==
  IF slug \in {"x_router"} THEN "router"
  ELSE IF slug \in {"x_specialist"} THEN "specialist"
  ELSE ""

Coalesce(a, b) == IF a # "" THEN a ELSE b

\* routingUtils.buildAgentSummaryItem, the role it computes
SummaryRole(agent) ==
  LET tags == normalizeStringArray(agent.tags)
      inferredRole == Coalesce(inferRoleFromTags(tags),
                               inferRoleFromLabel(agent.name, agent.slug))
      role == Coalesce(normalizeAgentRole(agent.role), inferredRole)
  IN  Coalesce(role, IF agent.system THEN "system" ELSE "")

\* routingUtils.readRoutingState
readRoutingState(context) ==
  [visitedSlugs |-> normalizeStringArray(context.visitedSlugs),
   routingDepth |-> IF context.hasDepth /\ context.routingDepth >= 0
                    THEN context.routingDepth ELSE 0]

-----------------------------------------------------------------------------
(* The store.                                                              *)

AgentIds == DOMAIN agents
VersionIds == DOMAIN agentVersions
RunIds == DOMAIN runs

SetMax(S) == IF S = {} THEN 0 ELSE CHOOSE x \in S : \A y \in S : y <= x

\* collections.agents.findOne({slug}): 0 when there is none
AgentBySlug(slug) ==
  LET hit == {a \in AgentIds : agents[a].slug = slug}
  IN  IF hit = {} THEN 0 ELSE CHOOSE a \in hit : \A b \in hit : a <= b

\* agentVersions.find({agentId}).sort({version: -1}).limit(1): its version, 0 if none
LatestVersion(agentId) ==
  SetMax({agentVersions[v].version : v \in {w \in VersionIds : agentVersions[w].agentId = agentId}})

\* new ObjectId() for a version: an id no document has and no agent refers to
NewVersionId == SetMax(VersionIds \cup {agents[a].active : a \in AgentIds}) + 1

\* insertOne into a collection kept as a function of _id
Insert(coll, id, doc) == [i \in DOMAIN coll \cup {id} |-> IF i = id THEN doc ELSE coll[i]]

\* a nextSeq that gives the highest seq of the log
highestSeq(runId) == SetMax({events[runId][i].seq : i \in DOMAIN events[runId]})

\* runEngine.nextSeq
nextSeq(runId) == SetMax({events[runId][i].seq : i \in DOMAIN events[runId]}) + 1

\* runEngine.emit, when the insertion is accepted
emit(runId, type, ref, status) ==
  [events EXCEPT ![runId] =
     Append(@, [seq |-> nextSeq(runId), type |-> type, ref |-> ref, status |-> status])]

NoContext == [visitedSlugs |-> <<>>, hasDepth |-> FALSE, routingDepth |-> 0]
NoOutput == [set |-> FALSE, result |-> [k |-> "null"]]
NoError == [set |-> FALSE, message |-> <<"", "">>, lastEventSeq |-> 0]

-----------------------------------------------------------------------------
(* Inputs: what a model may answer and what a client may send.             *)

NoMsg == <<"", "">>
NoAgent == [slug |-> "", name |-> <<>>, tags |-> <<>>, role |-> "", system |-> FALSE,
            hidden |-> FALSE, active |-> 0, origin |-> 0, cardTags |-> <<>>, hasCard |-> FALSE]
\* a parsed answer; keys tells which of the keys agentsToCreate/runsToExecute
\* ("canonical") and agents/runs ("legacy") the JSON object has
Final(r) ==
  [type |-> "final", result |-> r, keys |-> {},
   agentsToCreate |-> <<>>, runsToExecute |-> <<>>, agents |-> <<>>, runs |-> <<>>]
BothPlan(atc, rte, legacyAgents, legacyRuns) ==
  [type |-> "plan", result |-> [k |-> "null"], keys |-> {"canonical", "legacy"},
   agentsToCreate |-> atc, runsToExecute |-> rte,
   agents |-> legacyAgents, runs |-> legacyRuns]
Plan(atc, rte) == [BothPlan(atc, rte, <<>>, <<>>) EXCEPT !.keys = {"canonical"}]
LegacyPlan(legacyAgents, legacyRuns) ==
  [BothPlan(<<>>, <<>>, legacyAgents, legacyRuns) EXCEPT !.keys = {"legacy"}]
\* content that JSON.parse rejects or that has no type plan/final
BadResponse == [Final([k |-> "null"]) EXCEPT !.type = "bad"]

\* parsed.agentsToCreate ?? parsed.agents ?? []
NormalizedAgents(parsed) ==
  IF "canonical" \in parsed.keys THEN parsed.agentsToCreate
  ELSE IF "legacy" \in parsed.keys THEN parsed.agents
  ELSE <<>>

\* parsed.runsToExecute ?? parsed.runs ?? []
NormalizedRuns(parsed) ==
  IF "canonical" \in parsed.keys THEN parsed.runsToExecute
  ELSE IF "legacy" \in parsed.keys THEN parsed.runs
  ELSE <<>>

AgentSpec(slug, name, prompt, hintTags, metaTags) ==
  [slug |-> slug, name |-> name, systemPrompt |-> prompt,
   hintTags |-> hintTags, metaTags |-> metaTags, metaRole |-> ""]

SpecA1 == AgentSpec("a", <<"A">>, <<"p">>, <<>>, <<>>)
SpecA2 == AgentSpec("a", <<"A">>, <<"q">>, <<>>, <<>>)

\* what one specification lets the environment do
Cfg(nTasks, maxRuns, maxRpc, maxFaults, maxDepth, maxChildren, responses, startSlugs, contexts, withParent) ==
  [nTasks |-> nTasks, maxRuns |-> maxRuns, maxRpc |-> maxRpc, maxFaults |-> maxFaults,
   maxDepth |-> maxDepth, maxChildren |-> maxChildren, responses |-> responses,
   startSlugs |-> startSlugs, contexts |-> contexts, withParent |-> withParent]

ResponsesMain ==
  {Final([k |-> "res", v |-> "r1"]), BadResponse, Plan(<<>>, <<"x">>),
   Plan(<<SpecA1>>, <<"a">>), Plan(<<SpecA1, SpecA2>>, <<>>)}

ContextsMain ==
  {NoContext, [visitedSlugs |-> <<"a">>, hasDepth |-> TRUE, routingDepth |-> 0]}

CfgMain ==
  Cfg(1, MaxRuns, MaxRpc, 0, DefaultMaxDepth, DefaultMaxChildren,
      ResponsesMain, {BOOTSTRAP_AGENT_SLUG, "a"}, ContextsMain, "any")

ResponsesFault ==
  {Final([k |-> "res", v |-> "r1"]), BadResponse, Plan(<<>>, <<"x">>)}

CfgFault ==
  Cfg(1, MaxRunsFault, MaxRunsFault, MaxFaults, DefaultMaxDepth, DefaultMaxChildren,
      ResponsesFault, {BOOTSTRAP_AGENT_SLUG}, {NoContext}, "none")

ResponsesCap ==
  {Final([k |-> "res", v |-> "r1"]), Plan(<<>>, <<"x">>)}

CfgCap ==
  Cfg(1, MaxRunsCap, MaxRunsCap, 0, DefaultMaxDepth, DefaultMaxChildren,
      ResponsesCap, {BOOTSTRAP_AGENT_SLUG}, {NoContext}, "first")

CfgRoot ==
  Cfg(1, MaxRunsRoot, MaxRunsRoot, 0, DefaultMaxDepth, DefaultMaxChildren,
      ResponsesCap, {BOOTSTRAP_AGENT_SLUG}, {NoContext}, "any")

ResponsesConc ==
  {Final([k |-> "res", v |-> "r1"]), Plan(<<SpecA1>>, <<"a">>), Plan(<<SpecA2>>, <<>>)}

CfgConc ==
  Cfg(2, MaxRunsConc, MaxRpcConc, 0, DefaultMaxDepth, DefaultMaxChildren,
      ResponsesConc, {BOOTSTRAP_AGENT_SLUG}, {NoContext}, "none")

\* the prompts a client sends with agent.updatePrompt
UserPrompts == {<<"u">>}

-----------------------------------------------------------------------------
(* Tasks and executeRun activations.                                       *)

Tasks(c) == 1 .. c.nTasks

\* a request in flight; runEvents is the params and the result of the last
\* run.events request, wf the locals of workflow.run: the nodes, the index of
\* the node being visited, outputs and results
IdleTask ==
  [kind |-> "idle", stack |-> <<>>, runId |-> 0, threw |-> FALSE, msg |-> NoMsg,
   response |-> "none", agentId |-> 0, nextVersion |-> 0, prompt |-> <<>>,
   versionId |-> 0,
   runEvents |-> [runId |-> 0, given |-> FALSE, sinceSeq |-> 0, events |-> <<>>, nextSeq |-> 0],
   wf |-> [nodes |-> <<>>, ni |-> 0, outputs |-> <<>>, results |-> <<>>]]

\* the locals of one executeRun call
NewFrame(runId) ==
  [run |-> runId, pc |-> "start", agent |-> 0, prompt |-> <<>>, role |-> "",
   activeVersionId |-> 0,
   vis |-> <<>>, depth |-> 0, routers |-> {},
   type |-> "", result |-> [k |-> "null"], parsed |-> BadResponse,
   atc |-> <<>>, rte |-> <<>>,
   si |-> 1, sim |-> 0, snap |-> NoAgent, matchedOn |-> "", latestVersion |-> 0,
   nextVersion |-> 0,
   newAgent |-> 0, newVersion |-> 0, res |-> <<>>, ei |-> 1,
   again |-> FALSE, inserted |-> 0,
   ci |-> 1, childRun |-> 0, childThrew |-> FALSE, childMsg |-> NoMsg, outs |-> <<>>,
   msg |-> NoMsg]

Top(t) == tasks[t].stack[Len(tasks[t].stack)]
WithTop(t, f) == [tasks EXCEPT ![t].stack[Len(tasks[t].stack)] = f]
At(t, pc) ==
  tasks[t].kind \in {"runStart", "workflowRun"} /\ tasks[t].stack # <<>> /\ Top(t).pc = pc

\* executeRun ends: normally, or by an exception thrown out of its catch block
Pop(t, threw, msg) ==
  LET st == tasks[t].stack
      n == Len(st)
  IN  IF n = 1
      THEN [tasks EXCEPT ![t].stack = <<>>, ![t].threw = threw, ![t].msg = msg]
      ELSE [tasks EXCEPT ![t].stack =
              Append(SubSeq(st, 1, n - 2),
                     [st[n - 1] EXCEPT !.pc = "childDone", !.childThrew = threw,
                                       !.childMsg = msg])]

\* observer: executeRun(runId) has returned without an exception
Returned(runId) == [hist EXCEPT !.returned = @ \cup {runId}]

\* observer: the routing state executeRun computed for the run of frame f and
\* the answer of the model, by run id
Seen(f) ==
  [hist EXCEPT !.seen =
     [r \in DOMAIN @ \cup {f.run} |->
        IF r = f.run
        THEN [run |-> f.run, role |-> f.role, routers |-> f.routers,
              vis |-> f.vis, depth |-> f.depth,
              type |-> f.type, result |-> f.result, atc |-> f.atc, rte |-> f.rte]
        ELSE @[r]]]

\* whether the store accepts the next insertion of an event
OkChoices(c) == IF faults < c.maxFaults THEN {TRUE, FALSE} ELSE {TRUE}
StoreError == <<"store error", "">>

\* the RPC requests made so far that the bounds count
Rpcs == Cardinality({r \in RunIds : runs[r].byRpc})
          + Cardinality({v \in VersionIds : agentVersions[v].createdBy = "user"})
          + Cardinality({t \in DOMAIN tasks : tasks[t].kind = "updatePrompt"})

-----------------------------------------------------------------------------
(* bootstrap.ts                                                            *)

SystemTags(tags, extra) == Dedup(tags \o extra, {})

\* createSystemVersion: the collection after the insertion
createSystemVersion(agentId, systemPrompt) ==
  Insert(agentVersions, NewVersionId,
         [agentId |-> agentId, version |-> LatestVersion(agentId) + 1,
          systemPrompt |-> Trim(systemPrompt), createdBy |-> "system"])

\* ensureBootstrapAgent for an existing bootstrap agent (the server creates it
\* before it listens): refreshes the metadata, and appends a version when the
\* active one is missing or its prompt is not the bootstrap prompt
ensureBootstrapAgent ==
  LET id == AgentBySlug(BOOTSTRAP_AGENT_SLUG)
      existing == agents[id]
      fresh == existing.active \in VersionIds
                 /\ Trim(agentVersions[existing.active].systemPrompt) = Trim(BOOTSTRAP_PROMPT)
      vs == IF fresh THEN agentVersions
            ELSE createSystemVersion(id, BOOTSTRAP_PROMPT)
      meta == [existing EXCEPT !.hidden = TRUE, !.system = TRUE,
                               !.tags = SystemTags(@, <<"bootstrap", "system">>)]
  IN  [agents |-> [agents EXCEPT ![id] =
                     IF fresh THEN meta ELSE [meta EXCEPT !.active = NewVersionId]],
       agentVersions |-> vs,
       agentId |-> id,
       versionId |-> IF fresh THEN existing.active ELSE NewVersionId]

-----------------------------------------------------------------------------
(* The state after the server has started: indexes and the bootstrap agent *)
(* exist, nothing else does.                                               *)

InitStore ==
  /\ agents = <<[slug |-> BOOTSTRAP_AGENT_SLUG, name |-> <<"B", "o">>,
                 tags |-> <<"bootstrap", "system">>, role |-> "",
                 system |-> TRUE, hidden |-> TRUE, active |-> 1,
                 origin |-> 0, cardTags |-> <<>>, hasCard |-> FALSE]>>
  /\ agentVersions = <<[agentId |-> 1, version |-> 1,
                        systemPrompt |-> Trim(BOOTSTRAP_PROMPT), createdBy |-> "system"]>>
  /\ sessions = 0
  /\ runs = <<>>
  /\ events = <<>>
  /\ faults = 0
  /\ hist = [atc |-> <<>>, agents |-> <<>>, agentVersions |-> <<>>, returned |-> {},
             seen |-> <<>>]

Init ==
  /\ InitStore
  /\ tasks = [t \in Tasks(CfgMain) |-> IdleTask]

-----------------------------------------------------------------------------
(* rpc.ts                                                                  *)

\* session.create
SessionCreate(t) ==
  /\ tasks[t].kind = "idle"
  /\ sessions < MaxSessions
  /\ sessions' = sessions + 1
  /\ UNCHANGED <<agents, agentVersions, runs, events, tasks, faults, hist>>

\* the parentRunId a client passes: none, any run, or the first run once it exists
ParentChoices(c) ==
  IF c.withParent = "any" THEN {0} \cup RunIds
  ELSE IF c.withParent = "first" /\ runs # <<>> THEN {1}
  ELSE {0}

\* a parent that is no root: its own id in place of its rootRunId
ParentItself(parentRunId) == parentRunId

\* run.start: rootRunId = parent.rootRunId ?? parent._id; every run document
\* is written with a rootRunId
ParentRoot(parentRunId) == runs[parentRunId].rootRunId

\* run.start up to the call of executeRun: resolveAgent, the parent lookup and
\* the insertion of the run document
handleRunStart(t, c) ==
  /\ tasks[t].kind = "idle"
  /\ Len(runs) < c.maxRuns
  /\ Rpcs < c.maxRpc
  /\ \E sessionId \in 1 .. sessions, agentSlug \in c.startSlugs, context \in c.contexts,
        parentRunId \in ParentChoices(c) :
       LET found == AgentBySlug(agentSlug)
           eb == ensureBootstrapAgent
           agentId == IF found # 0 THEN found ELSE eb.agentId
           versionId == IF found # 0 THEN agents[found].active ELSE eb.versionId
           runId == Len(runs) + 1
           rootRunId == IF parentRunId # 0 THEN ParentRoot(parentRunId) ELSE runId
       IN  \* "Active agent version missing" is an RPC error without effect
           /\ versionId \in VersionIds \/ found = 0
           /\ agents' = IF found # 0 THEN agents ELSE eb.agents
           /\ agentVersions' = IF found # 0 THEN agentVersions ELSE eb.agentVersions
           /\ runs' = Append(runs,
                [sessionId |-> sessionId, agentId |-> agentId, agentVersionId |-> versionId,
                 status |-> "running", parentRunId |-> parentRunId, rootRunId |-> rootRunId,
                 context |-> context, byRpc |-> TRUE,
                 output |-> NoOutput, error |-> NoError, ended |-> FALSE])
           /\ events' = Append(events, <<>>)
           /\ tasks' = [tasks EXCEPT ![t] =
                [IdleTask EXCEPT !.kind = "runStart", !.runId = runId,
                                 !.stack = <<NewFrame(runId)>>]]
  /\ UNCHANGED <<sessions, faults, hist>>

\* run.start after executeRun: the response {runId}, or the RPC error when
\* executeRun threw
handleRunStartEnd(t) ==
  /\ tasks[t].kind = "runStart"
  /\ tasks[t].stack = <<>>
  /\ tasks' = [tasks EXCEPT ![t] =
       [IdleTask EXCEPT !.runId = tasks[t].runId,
                        !.response = IF tasks[t].threw THEN "error" ELSE "result"]]
  /\ UNCHANGED <<agents, agentVersions, sessions, runs, events, faults, hist>>

\* the checks of run.start and resolveAgent in the order of the code: the
\* message of the first error thrown, or NoMsg.  sessionId 0 is a missing one
RunStartError(sessionId, hasMessage, found, parentRunId) ==
  IF sessionId = 0 \/ ~hasMessage THEN <<"sessionId and userMessage are required", "">>
  ELSE IF sessionId \notin 1 .. sessions THEN <<"Session not found", "">>
  ELSE IF found # 0 /\ agents[found].active \notin VersionIds
    THEN <<"Active agent version missing", "">>
  ELSE IF parentRunId # 0 /\ parentRunId \notin RunIds THEN <<"parentRunId not found", "">>
  ELSE NoMsg

\* a run.start that inserts the run document before it looks the parent up
RunDocWrittenUnknownParent(msg) == msg \in {NoMsg, <<"parentRunId not found", "">>}

\* runs.insertOne(runDoc) comes after every check: it is reached when none threw
RunDocWritten(msg) == msg = NoMsg

\* run.start that throws before executeRun: rpcHandler answers with the error.
\* resolveAgent has called ensureBootstrapAgent when the parent lookup throws
\* for a slug that no agent has
handleRunStartRejected(t, c) ==
  /\ tasks[t].kind = "idle"
  /\ \E sessionId \in 0 .. sessions + 1, hasMessage \in BOOLEAN, agentSlug \in c.startSlugs,
        parentRunId \in {0, Len(runs) + 1} :
       LET found == AgentBySlug(agentSlug)
           eb == ensureBootstrapAgent
           msg == RunStartError(sessionId, hasMessage, found, parentRunId)
           resolved == msg = <<"parentRunId not found", "">> /\ found = 0
           runId == Len(runs) + 1
       IN  /\ msg # NoMsg
           /\ agents' = IF resolved THEN eb.agents ELSE agents
           /\ agentVersions' = IF resolved THEN eb.agentVersions ELSE agentVersions
           /\ runs' = IF RunDocWritten(msg)
                      THEN Append(runs,
                        [sessionId |-> sessionId,
                         agentId |-> IF found # 0 THEN found ELSE eb.agentId,
                         agentVersionId |-> IF found # 0 THEN agents[found].active ELSE eb.versionId,
                         status |-> "running", parentRunId |-> parentRunId, rootRunId |-> runId,
                         context |-> NoContext, byRpc |-> TRUE,
                         output |-> NoOutput, error |-> NoError, ended |-> FALSE])
                      ELSE runs
           /\ events' = IF RunDocWritten(msg) THEN Append(events, <<>>) ELSE events
           /\ tasks' = [tasks EXCEPT ![t] = [IdleTask EXCEPT !.response = "error", !.msg = msg]]
  /\ UNCHANGED <<sessions, faults, hist>>

\* agent.setActiveVersion: the lookup of the version by {_id, agentId} and
\* agents.updateOne(activeVersionId); no document is deleted between the two.
\* "Agent version not found" is an RPC error without effect
handleAgentSetActiveVersion(t) ==
  /\ tasks[t].kind = "idle"
  /\ \E agentId \in AgentIds, versionId \in VersionIds :
       /\ agentVersions[versionId].agentId = agentId
       /\ agents' = [agents EXCEPT ![agentId].active = versionId]
  /\ tasks' = [tasks EXCEPT ![t] = [IdleTask EXCEPT !.response = "result"]]
  /\ UNCHANGED <<agentVersions, sessions, runs, events, faults, hist>>

\* agent.updatePrompt up to the read of the latest version
handleAgentUpdatePrompt(t, c) ==
  /\ tasks[t].kind = "idle"
  /\ Rpcs < c.maxRpc
  /\ \E agentId \in AgentIds, newSystemPrompt \in UserPrompts :
       tasks' = [tasks EXCEPT ![t] =
         [IdleTask EXCEPT !.kind = "updatePrompt", !.agentId = agentId,
                          !.prompt = newSystemPrompt,
                          !.nextVersion = LatestVersion(agentId) + 1]]
  /\ UNCHANGED <<agents, agentVersions, sessions, runs, events, faults, hist>>

\* agent.updatePrompt: agentVersions.insertOne(versionDoc)
handleAgentUpdatePromptInsert(t) ==
  /\ tasks[t].kind = "updatePrompt"
  /\ agentVersions' = Insert(agentVersions, NewVersionId,
       [agentId |-> tasks[t].agentId, version |-> tasks[t].nextVersion,
        systemPrompt |-> tasks[t].prompt, createdBy |-> "user"])
  /\ tasks' = [tasks EXCEPT ![t].kind = "updatePromptSet", ![t].versionId = NewVersionId]
  /\ UNCHANGED <<agents, sessions, runs, events, faults, hist>>

\* agent.updatePrompt: agents.updateOne(activeVersionId) and the response
handleAgentUpdatePromptSet(t) ==
  /\ tasks[t].kind = "updatePromptSet"
  /\ agents' = [agents EXCEPT ![tasks[t].agentId].active = tasks[t].versionId]
  /\ tasks' = [tasks EXCEPT ![t] = [IdleTask EXCEPT !.response = "result"]]
  /\ UNCHANGED <<agentVersions, sessions, runs, events, faults, hist>>

\* the documents of the collection events, each with its runId
EventDocs ==
  UNION {{[runId |-> r, ev |-> events[r][i]] : i \in DOMAIN events[r]} : r \in DOMAIN events}

\* find(filter).sort({seq: 1}).toArray(): the events of the documents by seq
RECURSIVE SortBySeq(_)
SortBySeq(docs) ==
  IF docs = {} THEN <<>>
  ELSE LET first == CHOOSE d \in docs : \A e \in docs : d.ev.seq <= e.ev.seq
       IN  <<first.ev>> \o SortBySeq(docs \ {first})

\* a filter on seq that admits the event with seq = sinceSeq
SeqFromSince(seq, sinceSeq) == seq >= sinceSeq

\* filter.seq = {$gt: Number(sinceSeq)}
SeqAfter(seq, sinceSeq) == seq > sinceSeq

\* run.events: sinceSeq is given, or undefined or null.  "runId is required"
\* is an RPC error without effect
handleRunEvents(t, c) ==
  /\ tasks[t].kind = "idle"
  /\ \E runId \in 1 .. c.maxRuns, given \in BOOLEAN, sinceSeq \in 0 .. MaxSince :
       LET found == {d \in EventDocs : d.runId = runId /\ (given => SeqAfter(d.ev.seq, sinceSeq))}
           evs == SortBySeq(found)
           lastSeq == IF Len(evs) > 0 THEN evs[Len(evs)].seq
                      ELSE IF given THEN sinceSeq ELSE 0
       IN  /\ ~given => sinceSeq = 0
           /\ tasks' = [tasks EXCEPT ![t] =
                [IdleTask EXCEPT !.response = "result",
                   !.runEvents = [runId |-> runId, given |-> given, sinceSeq |-> sinceSeq,
                                  events |-> evs, nextSeq |-> lastSeq + 1]]]
  /\ UNCHANGED <<agents, agentVersions, sessions, runs, events, faults, hist>>

\* a node as normalizeNodes stores it; parents is the set of the ids listed
WorkflowNode(id, agentSlug, parents) == [id |-> id, agentSlug |-> agentSlug, parents |-> parents]

\* the saved workflows: workflow.save stores the nodes in the order given and
\* accepts any parents
Workflows ==
  {<<WorkflowNode("n1", BOOTSTRAP_AGENT_SLUG, {}), WorkflowNode("n2", BOOTSTRAP_AGENT_SLUG, {"n1"})>>,
   <<WorkflowNode("n1", BOOTSTRAP_AGENT_SLUG, {"n2"}), WorkflowNode("n2", BOOTSTRAP_AGENT_SLUG, {})>>,
   <<WorkflowNode("n1", BOOTSTRAP_AGENT_SLUG, {}), WorkflowNode("n2", BOOTSTRAP_AGENT_SLUG, {"zz"})>>}

\* workflow.run up to the loop over the nodes.  Missing params, an unknown
\* session and an unknown or empty workflow are RPC errors without effect
handleWorkflowRun(t, c) ==
  /\ tasks[t].kind = "idle"
  /\ sessions > 0
  /\ \E nodes \in Workflows :
       /\ Len(runs) + Len(nodes) <= c.maxRuns
       /\ tasks' = [tasks EXCEPT ![t] =
            [IdleTask EXCEPT !.kind = "workflow",
               !.wf = [nodes |-> nodes, ni |-> 1, outputs |-> <<>>, results |-> <<>>]]]
  /\ UNCHANGED <<agents, agentVersions, sessions, runs, events, faults, hist>>

\* workflow.run, one iteration of the loop up to the call of executeRun: the
\* test `pid in outputs` of every parent, then startRunInternal and
\* handleRunStart; after the last node the response {runs, finalOutput}
handleWorkflowRunNode(t) ==
  /\ tasks[t].kind = "workflow"
  /\ LET w == tasks[t].wf
         node == w.nodes[w.ni]
         parentsDone == \A pid \in node.parents : pid \in DOMAIN w.outputs
         found == AgentBySlug(node.agentSlug)
         eb == ensureBootstrapAgent
         runId == Len(runs) + 1
     IN  IF w.ni > Len(w.nodes)
         THEN /\ tasks' = [tasks EXCEPT ![t] = [IdleTask EXCEPT !.response = "result", !.wf = w]]
              /\ UNCHANGED <<agents, agentVersions, runs, events>>
         ELSE IF ~parentsDone
         THEN /\ tasks' = [tasks EXCEPT ![t] =
                   [IdleTask EXCEPT !.response = "error", !.wf = w,
                                    !.msg = <<"Parent outputs missing for node", node.id>>]]
              /\ UNCHANGED <<agents, agentVersions, runs, events>>
         ELSE IF found # 0 /\ agents[found].active \notin VersionIds
         THEN /\ tasks' = [tasks EXCEPT ![t] =
                   [IdleTask EXCEPT !.response = "error", !.wf = w,
                                    !.msg = <<"Active agent version missing", "">>]]
              /\ UNCHANGED <<agents, agentVersions, runs, events>>
         ELSE /\ agents' = IF found # 0 THEN agents ELSE eb.agents
              /\ agentVersions' = IF found # 0 THEN agentVersions ELSE eb.agentVersions
              /\ runs' = Append(runs,
                   [sessionId |-> 1,
                    agentId |-> IF found # 0 THEN found ELSE eb.agentId,
                    agentVersionId |-> IF found # 0 THEN agents[found].active ELSE eb.versionId,
                    status |-> "running", parentRunId |-> 0, rootRunId |-> runId,
                    context |-> NoContext, byRpc |-> TRUE,
                    output |-> NoOutput, error |-> NoError, ended |-> FALSE])
              /\ events' = Append(events, <<>>)
              /\ tasks' = [tasks EXCEPT ![t].kind = "workflowRun", ![t].runId = runId,
                                         ![t].stack = <<NewFrame(runId)>>]
  /\ UNCHANGED <<sessions, faults, hist>>

\* workflow.run after executeRun: startRunInternal reads the run document,
\* outputs[node.id] = output (undefined for a run without output),
\* statuses, results.push; an exception of executeRun is the RPC error
handleWorkflowRunNodeEnd(t) ==
  /\ tasks[t].kind = "workflowRun"
  /\ tasks[t].stack = <<>>
  /\ LET w == tasks[t].wf
         node == w.nodes[w.ni]
         runDoc == runs[tasks[t].runId]
     IN  tasks' = [tasks EXCEPT ![t] =
           IF tasks[t].threw
           THEN [IdleTask EXCEPT !.response = "error", !.wf = w, !.msg = tasks[t].msg]
           ELSE [tasks[t] EXCEPT
                   !.kind = "workflow",
                   !.wf = [w EXCEPT
                     !.ni = w.ni + 1,
                     !.outputs = [id \in DOMAIN w.outputs \cup {node.id} |->
                                    IF id = node.id THEN runDoc.output ELSE w.outputs[id]],
                     !.results = Append(w.results,
                       [nodeId |-> node.id, agentSlug |-> node.agentSlug,
                        runId |-> tasks[t].runId, status |-> runDoc.status,
                        output |-> runDoc.output])]]]
  /\ UNCHANGED <<agents, agentVersions, sessions, runs, events, faults, hist>>

-----------------------------------------------------------------------------
(* runEngine: executeRun, from the start to the parsed model response.     *)

\* an exception that leaves executeRun without passing through its catch block
RaiseOut(t, msg) == Pop(t, TRUE, msg)

\* an exception inside the try block: control goes to the catch block
Raise(t, msg) == WithTop(t, [Top(t) EXCEPT !.pc = "catch", !.msg = msg])

\* the children of the plans in progress that are not created yet
Pending(f) ==
  IF f.type # "plan" \/ f.pc \in {"catch", "catchError", "catchFinish", "finish"} THEN 0
  ELSE IF f.pc \in {"childStart", "childWait", "childDone"} THEN Len(f.rte) - f.ci
  ELSE Len(f.rte) - (f.ci - 1)

RECURSIVE SumPending(_)
SumPending(st) == IF st = <<>> THEN 0 ELSE Pending(Head(st)) + SumPending(Tail(st))

RECURSIVE SumTasks(_)
SumTasks(ts) ==
  IF ts = {} THEN 0
  ELSE LET t == CHOOSE x \in ts : TRUE
       IN  SumPending(tasks[t].stack) + SumTasks(ts \ {t})

Reserved == SumTasks(DOMAIN tasks)

\* loadRun and emit RUN_STARTED
ExecStart(t, c) ==
  /\ At(t, "start")
  /\ \E ok \in OkChoices(c) :
       IF ok
       THEN /\ events' = emit(Top(t).run, "RUN_STARTED", 0, "")
            /\ tasks' = WithTop(t, [Top(t) EXCEPT !.pc = "prompt"])
            /\ UNCHANGED faults
       ELSE /\ tasks' = Raise(t, StoreError)
            /\ faults' = faults + 1
            /\ UNCHANGED events
  /\ UNCHANGED <<agents, agentVersions, sessions, runs, hist>>

\* a resolveAgentVersion that reads the active version of the agent
ActiveVersionOf(run) == agents[run.agentId].active

\* resolveAgentVersion: the _id it looks up, run.agentVersionId ??
\* agent.activeVersionId; every run document is written with an agentVersionId
VersionOfRun(run) == run.agentVersionId

\* resolveAgentVersion and emit PROMPT_LOADED
ExecPrompt(t, c) ==
  /\ At(t, "prompt")
  /\ LET run == runs[Top(t).run]
     IN  IF run.agentId \notin AgentIds
         THEN /\ tasks' = Raise(t, <<"Agent not found for run", "">>)
              /\ UNCHANGED <<events, faults>>
         ELSE IF VersionOfRun(run) \notin VersionIds
         THEN /\ tasks' = Raise(t, <<"Agent version not found", "">>)
              /\ UNCHANGED <<events, faults>>
         ELSE \E ok \in OkChoices(c) :
                IF ok
                THEN /\ events' = emit(Top(t).run, "PROMPT_LOADED", 0, "")
                     /\ tasks' = WithTop(t,
                          [Top(t) EXCEPT !.pc = "request", !.agent = run.agentId,
                             !.role = SummaryRole(agents[run.agentId]),
                             !.activeVersionId = agents[run.agentId].active,
                             !.prompt = agentVersions[VersionOfRun(run)].systemPrompt])
                     /\ UNCHANGED faults
                ELSE /\ tasks' = Raise(t, StoreError)
                     /\ faults' = faults + 1
                     /\ UNCHANGED events
  /\ UNCHANGED <<agents, agentVersions, sessions, runs, hist>>

\* emit MODEL_REQUEST
ExecRequest(t, c) ==
  /\ At(t, "request")
  /\ \E ok \in OkChoices(c) :
       IF ok
       THEN /\ events' = emit(Top(t).run, "MODEL_REQUEST", 0, "")
            /\ tasks' = WithTop(t, [Top(t) EXCEPT !.pc = "model"])
            /\ UNCHANGED faults
       ELSE /\ tasks' = Raise(t, StoreError)
            /\ faults' = faults + 1
            /\ UNCHANGED events
  /\ UNCHANGED <<agents, agentVersions, sessions, runs, hist>>

\* listAvailableAgents, the routing state, callModel, parseJsonStrict and
\* emit MODEL_RESPONSE
ExecModel(t, c) ==
  /\ At(t, "model")
  /\ \E response \in c.responses :
       /\ Len(runs) + Reserved + Len(NormalizedRuns(response)) <= c.maxRuns
       /\ LET f == Top(t)
              routingState == readRoutingState(runs[f.run].context)
              parsed ==
                [f EXCEPT
                   !.vis = mergeStringArrays(routingState.visitedSlugs, <<agents[f.agent].slug>>),
                   !.depth = routingState.routingDepth,
                   !.routers = {agents[a].slug : a \in {b \in AgentIds : SummaryRole(agents[b]) = "router"}},
                   !.type = response.type, !.result = response.result,
                   !.parsed = response,
                   !.atc = NormalizedAgents(response), !.rte = NormalizedRuns(response),
                   !.pc = IF response.type = "final" THEN "final" ELSE "validate"]
          IN  /\ hist' = Seen(parsed)
              /\ IF response.type = "bad"
                 THEN /\ tasks' = Raise(t, <<"Model response missing type plan/final", "">>)
                      /\ UNCHANGED <<events, faults>>
                 ELSE \E ok \in OkChoices(c) :
                        IF ok
                        THEN /\ events' = emit(f.run, "MODEL_RESPONSE", 0, "")
                             /\ tasks' = WithTop(t, parsed)
                             /\ UNCHANGED faults
                        ELSE /\ tasks' = WithTop(t, [parsed EXCEPT !.pc = "catch", !.msg = StoreError])
                             /\ faults' = faults + 1
                             /\ UNCHANGED events
  /\ UNCHANGED <<agents, agentVersions, sessions, runs>>

\* a final branch that drops the result of the answer
ExecFinalNoResult(t) ==
  /\ At(t, "final")
  /\ runs' = [runs EXCEPT ![Top(t).run] =
       [@ EXCEPT !.status = "succeeded",
                 !.output = [set |-> TRUE, result |-> [k |-> "null"]], !.ended = TRUE]]
  /\ tasks' = WithTop(t, [Top(t) EXCEPT !.pc = "finish"])
  /\ UNCHANGED <<agents, agentVersions, sessions, events, faults, hist>>

\* the final branch: runs.updateOne {status succeeded, output, endedAt}
ExecFinal(t) ==
  /\ At(t, "final")
  /\ runs' = [runs EXCEPT ![Top(t).run] =
       [@ EXCEPT !.status = "succeeded",
                 !.output = [set |-> TRUE, result |-> Top(t).result], !.ended = TRUE]]
  /\ tasks' = WithTop(t, [Top(t) EXCEPT !.pc = "finish"])
  /\ UNCHANGED <<agents, agentVersions, sessions, events, faults, hist>>

\* emit RUN_FINISHED {succeeded}, the last statement of the try block
ExecFinish(t, c) ==
  /\ At(t, "finish")
  /\ \E ok \in OkChoices(c) :
       IF ok
       THEN /\ events' = emit(Top(t).run, "RUN_FINISHED", 0, "succeeded")
            /\ tasks' = Pop(t, FALSE, NoMsg)
            /\ hist' = Returned(Top(t).run)
            /\ UNCHANGED faults
       ELSE /\ tasks' = Raise(t, StoreError)
            /\ faults' = faults + 1
            /\ UNCHANGED <<events, hist>>
  /\ UNCHANGED <<agents, agentVersions, sessions, runs>>

\* the catch block: nextSeq and runs.updateOne {status failed, error, endedAt}
ExecCatch(t) ==
  /\ At(t, "catch")
  /\ runs' = [runs EXCEPT ![Top(t).run] =
       [@ EXCEPT !.status = "failed",
                 !.error = [set |-> TRUE, message |-> Top(t).msg,
                            lastEventSeq |-> nextSeq(Top(t).run) - 1],
                 !.ended = TRUE]]
  /\ tasks' = WithTop(t, [Top(t) EXCEPT !.pc = "catchError"])
  /\ UNCHANGED <<agents, agentVersions, sessions, events, faults, hist>>

\* the catch block: emit ERROR; a rejected insertion leaves executeRun as an exception
ExecCatchError(t, c) ==
  /\ At(t, "catchError")
  /\ \E ok \in OkChoices(c) :
       IF ok
       THEN /\ events' = emit(Top(t).run, "ERROR", 0, "")
            /\ tasks' = WithTop(t, [Top(t) EXCEPT !.pc = "catchFinish"])
            /\ UNCHANGED faults
       ELSE /\ tasks' = Pop(t, TRUE, StoreError)
            /\ faults' = faults + 1
            /\ UNCHANGED events
  /\ UNCHANGED <<agents, agentVersions, sessions, runs, hist>>

\* the catch block: emit RUN_FINISHED {failed}
ExecCatchFinish(t, c) ==
  /\ At(t, "catchFinish")
  /\ \E ok \in OkChoices(c) :
       IF ok
       THEN /\ events' = emit(Top(t).run, "RUN_FINISHED", 0, "failed")
            /\ tasks' = Pop(t, FALSE, NoMsg)
            /\ hist' = Returned(Top(t).run)
            /\ UNCHANGED faults
       ELSE /\ tasks' = Pop(t, TRUE, StoreError)
            /\ faults' = faults + 1
            /\ UNCHANGED <<events, hist>>
  /\ UNCHANGED <<agents, agentVersions, sessions, runs>>

-----------------------------------------------------------------------------
(* runEngine: executeRun, the plan branch up to the resolved agents.       *)

\* the loop without its test of visitedSlugs
CheckRunSpecsUnvisited(rte, visitedSlugs, requestedSlugs) ==
  IF \E i \in DOMAIN rte : rte[i] = "" THEN <<"runsToExecute entries require slug", "">>
  ELSE IF \E i, j \in DOMAIN rte : i < j /\ rte[i] = rte[j]
    THEN <<"Duplicate slug in runsToExecute", "">>
  ELSE NoMsg

\* the loop over runsToExecute that rejects an entry without slug, a slug
\* requested twice and a slug of visitedSlugs: the first error, or NoMsg
RECURSIVE CheckRunSpecs(_, _, _)
CheckRunSpecs(rte, visitedSlugs, requestedSlugs) ==
  IF rte = <<>> THEN NoMsg
  ELSE LET slug == Head(rte)
       IN  IF slug = "" THEN <<"runsToExecute entries require slug", "">>
           ELSE IF slug \in requestedSlugs THEN <<"Duplicate slug in runsToExecute", slug>>
           ELSE IF slug \in visitedSlugs
                THEN <<"Slug already executed in this run tree", slug>>
           ELSE CheckRunSpecs(Tail(rte), visitedSlugs, requestedSlugs \cup {slug})

\* a spawn cap that already rejects the plan that reaches the limit
enforceSpawnCapAtLimit(run, requestedChildren) ==
  LET existing == Cardinality({r \in RunIds : runs[r].rootRunId = run.rootRunId})
      alreadySpawned == IF existing - 1 > 0 THEN existing - 1 ELSE 0
  IN  alreadySpawned + requestedChildren >= SpawnLimit

\* a spawn cap that rejects no plan
enforceSpawnCapNever(run, requestedChildren) == FALSE

\* enforceSpawnCap: whether it throws
enforceSpawnCap(run, requestedChildren) ==
  LET existing == Cardinality({r \in RunIds : runs[r].rootRunId = run.rootRunId})
      alreadySpawned == IF existing - 1 > 0 THEN existing - 1 ELSE 0
  IN  alreadySpawned + requestedChildren > SpawnLimit

\* a depth check that lets a run at maxDepth delegate
DepthAbove(routingDepth, maxDepth, requested) == routingDepth > maxDepth /\ requested > 0

\* the depth check: routingDepth >= maxDepth && runsToExecute.length > 0
DepthExceeded(routingDepth, maxDepth, requested) == routingDepth >= maxDepth /\ requested > 0

\* the checks of a plan without the test that a specialist names routers only
PlanErrorAnySlug(f, c) ==
  IF f.role = "specialist" /\ Len(f.atc) > 0
    THEN <<"Specialist agents cannot create new agents", "">>
  ELSE IF f.role = "specialist" /\ Len(f.rte) > 1
    THEN <<"Specialist agents may delegate to at most one router", "">>
  ELSE IF DepthExceeded(f.depth, c.maxDepth, Len(f.rte))
    THEN <<"Routing depth exceeded", "">>
  ELSE IF Len(f.rte) > c.maxChildren
    THEN <<"Too many child runs requested", "">>
  ELSE IF CheckRunSpecs(f.rte, Range(f.vis), {}) # NoMsg
    THEN CheckRunSpecs(f.rte, Range(f.vis), {})
  ELSE IF enforceSpawnCap(runs[f.run], Len(f.rte))
    THEN <<"Spawn cap exceeded", "">>
  ELSE NoMsg

\* the checks of a plan in the order of the code: the first error, or NoMsg
PlanError(f, c) ==
  IF f.role = "specialist" /\ Len(f.atc) > 0
    THEN <<"Specialist agents cannot create new agents", "">>
  ELSE IF f.role = "specialist" /\ Len(f.rte) > 1
    THEN <<"Specialist agents may delegate to at most one router", "">>
  ELSE IF f.role = "specialist" /\ \E i \in DOMAIN f.rte : f.rte[i] \notin f.routers
    THEN <<"Specialist agents may only delegate to routers", "">>
  ELSE IF DepthExceeded(f.depth, c.maxDepth, Len(f.rte))
    THEN <<"Routing depth exceeded", "">>
  ELSE IF Len(f.rte) > c.maxChildren
    THEN <<"Too many child runs requested", "">>
  ELSE IF CheckRunSpecs(f.rte, Range(f.vis), {}) # NoMsg
    THEN CheckRunSpecs(f.rte, Range(f.vis), {})
  ELSE IF enforceSpawnCap(runs[f.run], Len(f.rte))
    THEN <<"Spawn cap exceeded", "">>
  ELSE NoMsg

\* where executeRun continues after the current statement of the plan branch
PlanPc(f) ==
  IF f.si <= Len(f.atc) THEN "spawn"
  ELSE IF f.ei <= Len(f.res) THEN "spawnEmit"
  ELSE IF f.ci <= Len(f.rte) THEN "child"
  ELSE "merge"

\* the frame at its next statement of the plan branch
Planned(f) == [f EXCEPT !.pc = PlanPc(f)]

\* the plan checks, enforceSpawnCap and emit SPAWN_AGENT_REQUEST
ExecValidate(t, c) ==
  /\ At(t, "validate")
  /\ LET f == Top(t)
     IN  IF PlanError(f, c) # NoMsg
         THEN /\ tasks' = Raise(t, PlanError(f, c))
              /\ UNCHANGED <<events, faults>>
         ELSE \E ok \in OkChoices(c) :
                IF ok
                THEN /\ events' = emit(f.run, "SPAWN_AGENT_REQUEST", 0, "")
                     /\ tasks' = WithTop(t,
                          [f EXCEPT !.pc = PlanPc(f),
                                    !.again = /\ f.atc # <<>>
                                              /\ hist.atc = f.atc
                                              /\ hist.agents = agents
                                              /\ hist.agentVersions = agentVersions])
                     /\ UNCHANGED faults
                ELSE /\ tasks' = Raise(t, StoreError)
                     /\ faults' = faults + 1
                     /\ UNCHANGED events
  /\ UNCHANGED <<agents, agentVersions, sessions, runs, hist>>

FirstOf(S) == IF S = {} THEN 0 ELSE CHOOSE a \in S : \A b \in S : a <= b

\* the effective tags of a spec
SpecTags(spec) ==
  mergeStringArrays(normalizeStringArray(spec.hintTags), normalizeStringArray(spec.metaTags))

\* findSimilarAgent: the agent found (0 if none) and what it matched on
findSimilarAgent(spec) ==
  LET bySlug == AgentBySlug(spec.slug)
      byName == FirstOf({a \in AgentIds : NameMatches(agents[a].name, spec.name)})
      tags == SpecTags(spec)
      byTags == IF Len(tags) > 0
                THEN FirstOf({a \in AgentIds : Range(agents[a].tags) \cap Range(tags) # {}})
                ELSE 0
  IN  IF bySlug # 0 THEN [agent |-> bySlug, matchedOn |-> "slug"]
      ELSE IF byName # 0 THEN [agent |-> byName, matchedOn |-> "name"]
      ELSE IF byTags # 0 THEN [agent |-> byTags, matchedOn |-> "tags"]
      ELSE [agent |-> 0, matchedOn |-> ""]

\* resolutions[spec.slug] = r: a requested slug keeps its first position
PutResolution(res, r) ==
  IF \E i \in DOMAIN res : res[i].requestedSlug = r.requestedSlug
  THEN [i \in DOMAIN res |-> IF res[i].requestedSlug = r.requestedSlug THEN r ELSE res[i]]
  ELSE Append(res, r)

Resolution(spec, slug, agentId, versionId, reused, matchedOn) ==
  [requestedSlug |-> spec.slug, slug |-> slug, agentId |-> agentId,
   agentVersionId |-> versionId, reused |-> reused, matchedOn |-> matchedOn,
   createdNewVersion |-> matchedOn \in {"slug-updated", "name-updated", "tags-updated"},
   createdNewAgent |-> matchedOn = "new"]

\* the metadata written to a matched agent: nextMetadata of spawnAgentsFromPlan
MergedMetadata(existing, spec) ==
  LET mergedExistingTags == mergeStringArrays(normalizeStringArray(existing.tags), SpecTags(spec))
      role == Coalesce(spec.metaRole, existing.role)
  IN  [existing EXCEPT
         !.tags = mergedExistingTags,
         !.role = Coalesce(role, Coalesce(normalizeAgentRole(role),
                                          inferRoleFromTags(mergedExistingTags))),
         !.cardTags = SpecTags(spec), !.hasCard = TRUE]

\* the agents and the last plan resolved, when a resolution step is the last one
Resolved(f, ags, vs) ==
  IF f.si > Len(f.atc)
  THEN [hist EXCEPT !.atc = f.atc, !.agents = ags, !.agentVersions = vs]
  ELSE hist

\* spawnAgentsFromPlan, one spec: the validity check, findSimilarAgent, the
\* read of the active version and, for a reuse, the metadata update; for a
\* prompt that differs, the read of the latest version number
ExecSpawn(t) ==
  /\ At(t, "spawn")
  /\ LET f == Top(t)
         spec == f.atc[f.si]
         similar == findSimilarAgent(spec)
         agent == agents[similar.agent]
         same == /\ agent.active \in VersionIds
                 /\ Trim(agentVersions[agent.active].systemPrompt) = Trim(spec.systemPrompt)
         done == [f EXCEPT !.si = f.si + 1]
     IN  IF spec.slug = "" \/ spec.name = <<>> \/ spec.systemPrompt = <<>>
         THEN /\ tasks' = Raise(t, <<"agentsToCreate entries require slug, name, systemPrompt", "">>)
              /\ UNCHANGED <<agents, hist>>
         ELSE IF similar.agent = 0
         THEN /\ tasks' = WithTop(t, [f EXCEPT !.pc = "spawnAgent"])
              /\ UNCHANGED <<agents, hist>>
         ELSE IF same
         THEN /\ agents' = IF Len(SpecTags(spec)) > 0 \/ spec.metaTags # <<>> \/ spec.metaRole # ""
                           THEN [agents EXCEPT ![similar.agent] = MergedMetadata(agent, spec)]
                           ELSE agents
              /\ tasks' = WithTop(t,
                   Planned([done EXCEPT !.res = PutResolution(f.res,
                                Resolution(spec, agent.slug, similar.agent, agent.active,
                                           TRUE, similar.matchedOn))]))
              /\ hist' = Resolved(done, agents', agentVersions)
         ELSE /\ tasks' = WithTop(t,
                   [f EXCEPT !.pc = "spawnVersion", !.sim = similar.agent, !.snap = agent,
                             !.matchedOn = similar.matchedOn,
                             !.latestVersion = IF agent.active \in VersionIds
                                               THEN agent.active ELSE 0,
                             !.nextVersion = LatestVersion(similar.agent) + 1])
              /\ UNCHANGED <<agents, hist>>
  /\ UNCHANGED <<agentVersions, sessions, runs, events, faults>>

\* spawnAgentsFromPlan, a matched agent whose prompt differs: insert the new
\* version, make it the active one and rewrite the metadata
ExecSpawnVersion(t) ==
  /\ At(t, "spawnVersion")
  /\ LET f == Top(t)
         spec == f.atc[f.si]
         versionId == NewVersionId
         done == [f EXCEPT !.si = f.si + 1, !.inserted = f.inserted + 1]
     IN  /\ agentVersions' = Insert(agentVersions, versionId,
              [agentId |-> f.sim, version |-> f.nextVersion,
               systemPrompt |-> spec.systemPrompt, createdBy |-> "agent"])
         /\ agents' = [agents EXCEPT ![f.sim] =
              [MergedMetadata(f.snap, spec) EXCEPT !.active = versionId]]
         /\ tasks' = WithTop(t,
              Planned([done EXCEPT !.res = PutResolution(f.res,
                           Resolution(spec, f.snap.slug, f.sim, versionId, FALSE,
                                      IF f.matchedOn = "slug" THEN "slug-updated"
                                      ELSE IF f.matchedOn = "name" THEN "name-updated"
                                      ELSE "tags-updated"))]))
         /\ hist' = Resolved(done, agents', agentVersions')
  /\ UNCHANGED <<sessions, runs, events, faults>>

\* spawnAgentsFromPlan, no similar agent: agents.insertOne; the unique index on
\* slug rejects a slug that exists by now
ExecSpawnAgent(t) ==
  /\ At(t, "spawnAgent")
  /\ LET f == Top(t)
         spec == f.atc[f.si]
         mergedTags == SpecTags(spec)
     IN  IF AgentBySlug(spec.slug) # 0
         THEN /\ tasks' = Raise(t, <<"E11000 duplicate key", spec.slug>>)
              /\ UNCHANGED agents
         ELSE /\ agents' = Append(agents,
                   [slug |-> spec.slug, name |-> spec.name, tags |-> mergedTags,
                    role |-> Coalesce(spec.metaRole, inferRoleFromTags(mergedTags)),
                    system |-> FALSE, hidden |-> FALSE, active |-> NewVersionId,
                    origin |-> f.run, cardTags |-> mergedTags, hasCard |-> TRUE])
              /\ tasks' = WithTop(t, [f EXCEPT !.pc = "spawnAgentVersion",
                                               !.newAgent = Len(agents) + 1,
                                               !.newVersion = NewVersionId])
  /\ UNCHANGED <<agentVersions, sessions, runs, events, faults, hist>>

\* spawnAgentsFromPlan, no similar agent: agentVersions.insertOne of version 1
ExecSpawnAgentVersion(t) ==
  /\ At(t, "spawnAgentVersion")
  /\ LET f == Top(t)
         spec == f.atc[f.si]
         done == [f EXCEPT !.si = f.si + 1, !.inserted = f.inserted + 1]
     IN  /\ agentVersions' = Insert(agentVersions, f.newVersion,
              [agentId |-> f.newAgent, version |-> 1,
               systemPrompt |-> spec.systemPrompt, createdBy |-> "agent"])
         /\ tasks' = WithTop(t,
              Planned([done EXCEPT !.res = PutResolution(f.res,
                           Resolution(spec, spec.slug, f.newAgent, f.newVersion, FALSE, "new"))]))
         /\ hist' = Resolved(done, agents, agentVersions')
  /\ UNCHANGED <<agents, sessions, runs, events, faults>>

\* emit SPAWN_AGENT_CREATED for one resolution
ExecSpawnEmit(t, c) ==
  /\ At(t, "spawnEmit")
  /\ LET f == Top(t)
         next == [f EXCEPT !.ei = f.ei + 1]
     IN  \E ok \in OkChoices(c) :
           IF ok
           THEN /\ events' = emit(f.run, "SPAWN_AGENT_CREATED", 0, "")
                /\ tasks' = WithTop(t, [next EXCEPT !.pc = PlanPc(next)])
                /\ UNCHANGED faults
           ELSE /\ tasks' = Raise(t, StoreError)
                /\ faults' = faults + 1
                /\ UNCHANGED events
  /\ UNCHANGED <<agents, agentVersions, sessions, runs, hist>>

-----------------------------------------------------------------------------
(* runEngine: executeRun, the child loop and the merge.                    *)

ResolutionOf(res, slug) ==
  LET hit == {i \in DOMAIN res : res[i].requestedSlug = slug}
  IN  IF hit = {} THEN 0 ELSE CHOOSE i \in hit : TRUE

ChildRun(parent, parentId, agentId, versionId, context) ==
  [sessionId |-> parent.sessionId, agentId |-> agentId, agentVersionId |-> versionId,
   status |-> "running", parentRunId |-> parentId, rootRunId |-> parent.rootRunId,
   context |-> context, byRpc |-> FALSE,
   output |-> NoOutput, error |-> NoError, ended |-> FALSE]

\* visitedSlugs of a child without the slugs of the parent's plan
ChildVisitedWithoutPlan(f, slug) == mergeStringArrays(f.vis, <<slug>>)

\* childVisited: visitedForChildren, the slugs of the parent's plan and the
\* slug of the child
ChildVisited(f, slug) == mergeStringArrays(mergeStringArrays(f.vis, f.rte), <<slug>>)

\* the child context and createChildRun: the agent of a resolution, else the
\* agent with the slug, else the bootstrap agent; runs.insertOne
ExecChild(t) ==
  /\ At(t, "child")
  /\ LET f == Top(t)
         slug == f.rte[f.ci]
         r == ResolutionOf(f.res, slug)
         agentId == IF r # 0 THEN f.res[r].agentId ELSE AgentBySlug(slug)
         eb == ensureBootstrapAgent
         versionIdToUse == IF r # 0 THEN f.res[r].agentVersionId ELSE agents[agentId].active
         contextData ==
           [visitedSlugs |-> ChildVisited(f, slug),
            hasDepth |-> TRUE, routingDepth |-> f.depth + 1, parentPlan |-> f.parsed]
         runId == Len(runs) + 1
     IN  IF agentId = 0
         THEN /\ agents' = eb.agents
              /\ agentVersions' = eb.agentVersions
              /\ runs' = Append(runs,
                   ChildRun(runs[f.run], f.run, eb.agentId, eb.versionId, contextData))
              /\ events' = Append(events, <<>>)
              /\ tasks' = WithTop(t, [f EXCEPT !.pc = "childStart", !.childRun = runId])
         ELSE IF versionIdToUse \notin VersionIds
         THEN /\ tasks' = Raise(t, <<"Child agent active version missing", "">>)
              /\ UNCHANGED <<agents, agentVersions, runs, events>>
         ELSE /\ runs' = Append(runs,
                   ChildRun(runs[f.run], f.run, agentId, versionIdToUse, contextData))
              /\ events' = Append(events, <<>>)
              /\ tasks' = WithTop(t, [f EXCEPT !.pc = "childStart", !.childRun = runId])
              /\ UNCHANGED <<agents, agentVersions>>
  /\ UNCHANGED <<sessions, faults, hist>>

\* emit CHILD_RUN_STARTED and the call executeRun(childRunId)
ExecChildStart(t, c) ==
  /\ At(t, "childStart")
  /\ LET f == Top(t)
     IN  \E ok \in OkChoices(c) :
           IF ok
           THEN /\ events' = emit(f.run, "CHILD_RUN_STARTED", f.childRun, "")
                /\ tasks' = [tasks EXCEPT ![t].stack =
                     Append(SubSeq(@, 1, Len(@) - 1), [f EXCEPT !.pc = "childWait"])
                       \o <<NewFrame(f.childRun)>>]
                /\ UNCHANGED faults
           ELSE /\ tasks' = Raise(t, StoreError)
                /\ faults' = faults + 1
                /\ UNCHANGED events
  /\ UNCHANGED <<agents, agentVersions, sessions, runs, hist>>

\* childOutputs[slug] = value
PutOutput(outs, slug, value) ==
  [s \in DOMAIN outs \cup {slug} |-> IF s = slug THEN value ELSE outs[s]]

ErrorResult(msg) == [k |-> "error", message |-> msg]

\* after executeRun(childRunId): the try block that reads the child run and
\* emits CHILD_RUN_FINISHED, and its catch block
ExecChildDone(t, c) ==
  /\ At(t, "childDone")
  /\ LET f == Top(t)
         slug == f.rte[f.ci]
         childRun == runs[f.childRun]
         read == IF childRun.output.set THEN childRun.output.result ELSE [k |-> "null"]
         next == [f EXCEPT !.ci = f.ci + 1, !.childThrew = FALSE, !.childMsg = NoMsg]
         After(value) == [next EXCEPT !.outs = PutOutput(f.outs, slug, value), !.pc = PlanPc(next)]
     IN  IF f.childThrew
         THEN \E ok \in OkChoices(c) :
                IF ok
                THEN /\ events' = emit(f.run, "CHILD_RUN_FINISHED", f.childRun, "failed")
                     /\ tasks' = WithTop(t, After(ErrorResult(f.childMsg)))
                     /\ UNCHANGED faults
                ELSE /\ tasks' = WithTop(t,
                          [After(ErrorResult(f.childMsg)) EXCEPT !.pc = "catch", !.msg = StoreError])
                     /\ faults' = faults + 1
                     /\ UNCHANGED events
         ELSE \E ok \in OkChoices(c) :
                IF ok
                THEN /\ events' = emit(f.run, "CHILD_RUN_FINISHED", f.childRun, childRun.status)
                     /\ tasks' = WithTop(t, After(read))
                     /\ UNCHANGED faults
                ELSE \* the insertion is rejected inside the try: the catch block emits again
                     \E ok2 \in (IF faults + 1 < c.maxFaults THEN {TRUE, FALSE} ELSE {TRUE}) :
                       IF ok2
                       THEN /\ events' = emit(f.run, "CHILD_RUN_FINISHED", f.childRun, "failed")
                            /\ tasks' = WithTop(t, After(ErrorResult(StoreError)))
                            /\ faults' = faults + 1
                       ELSE /\ tasks' = WithTop(t,
                                 [After(ErrorResult(StoreError)) EXCEPT !.pc = "catch", !.msg = StoreError])
                            /\ faults' = faults + 2
                            /\ UNCHANGED events
  /\ UNCHANGED <<agents, agentVersions, sessions, runs, hist>>

RECURSIVE ResolvedSlugs(_)
ResolvedSlugs(res) == IF res = <<>> THEN <<>> ELSE <<Head(res).slug>> \o ResolvedSlugs(Tail(res))

\* the merged result and runs.updateOne {status succeeded, output, endedAt}
ExecMerge(t) ==
  /\ At(t, "merge")
  /\ LET f == Top(t)
         mergedResult ==
           [k |-> "merged", childResultsBySlug |-> f.outs,
            createdAgents |-> ResolvedSlugs(f.res), executedAgents |-> f.rte]
     IN  /\ runs' = [runs EXCEPT ![f.run] =
              [@ EXCEPT !.status = "succeeded",
                        !.output = [set |-> TRUE, result |-> mergedResult], !.ended = TRUE]]
         /\ tasks' = WithTop(t, [f EXCEPT !.pc = "finish"])
  /\ UNCHANGED <<agents, agentVersions, sessions, events, faults, hist>>

\* executeRun without a plan's agents and children
ExecCore(t, c) ==
  \/ ExecStart(t, c)
  \/ ExecPrompt(t, c)
  \/ ExecRequest(t, c)
  \/ ExecModel(t, c)
  \/ ExecFinal(t)
  \/ ExecFinish(t, c)
  \/ ExecValidate(t, c)
  \/ ExecCatch(t)
  \/ ExecCatchError(t, c)
  \/ ExecCatchFinish(t, c)

\* spawnAgentsFromPlan and the SPAWN_AGENT_CREATED events
ExecAgents(t, c) ==
  \/ ExecSpawn(t)
  \/ ExecSpawnVersion(t)
  \/ ExecSpawnAgent(t)
  \/ ExecSpawnAgentVersion(t)
  \/ ExecSpawnEmit(t, c)

\* the child loop and the merge
ExecChildren(t, c) ==
  \/ ExecChild(t)
  \/ ExecChildStart(t, c)
  \/ ExecChildDone(t, c)
  \/ ExecMerge(t)

-----------------------------------------------------------------------------
(* Spec: one client at a time; sessions, runs started with and without     *)
(* parent, every model answer of ResponsesMain; the store accepts every    *)
(* operation.                                                              *)

Next ==
  \E t \in Tasks(CfgMain) :
    \/ SessionCreate(t)
    \/ handleRunStart(t, CfgMain)
    \/ handleRunStartEnd(t)
    \/ ExecCore(t, CfgMain)
    \/ ExecAgents(t, CfgMain)
    \/ ExecChildren(t, CfgMain)

Spec == Init /\ [][Next]_vars

(* SpecFault: as Spec with fewer runs, and the store may reject up to      *)
(* MaxFaults insertions of an event.                                       *)

NextFault ==
  \E t \in Tasks(CfgFault) :
    \/ SessionCreate(t)
    \/ handleRunStart(t, CfgFault)
    \/ handleRunStartEnd(t)
    \/ ExecCore(t, CfgFault)
    \/ ExecChildren(t, CfgFault)

SpecFault == Init /\ [][NextFault]_vars

(* SpecCap: a client that starts every run after the first with the first  *)
(* run as parentRunId; plans name one child and no agent.                  *)

NextCap ==
  \E t \in Tasks(CfgCap) :
    \/ SessionCreate(t)
    \/ handleRunStart(t, CfgCap)
    \/ handleRunStartEnd(t)
    \/ ExecCore(t, CfgCap)
    \/ ExecChildren(t, CfgCap)

SpecCap == Init /\ [][NextCap]_vars

(* SpecRoot: runs started with any existing run as parent, plans that    *)
(* name one child.                                                         *)

NextRoot ==
  \E t \in Tasks(CfgRoot) :
    \/ SessionCreate(t)
    \/ handleRunStart(t, CfgRoot)
    \/ handleRunStartEnd(t)
    \/ ExecCore(t, CfgRoot)
    \/ ExecChildren(t, CfgRoot)

SpecRoot == Init /\ [][NextRoot]_vars

(* SpecConc: two requests in progress at a time, each a run.start or an    *)
(* agent.updatePrompt; every await is a point where the other one runs.    *)

InitConc ==
  /\ InitStore
  /\ tasks = [t \in Tasks(CfgConc) |-> IdleTask]

NextConc ==
  \E t \in Tasks(CfgConc) :
    \/ SessionCreate(t)
    \/ handleRunStart(t, CfgConc)
    \/ handleRunStartEnd(t)
    \/ handleAgentUpdatePrompt(t, CfgConc)
    \/ handleAgentUpdatePromptInsert(t)
    \/ handleAgentUpdatePromptSet(t)
    \/ ExecCore(t, CfgConc)
    \/ ExecAgents(t, CfgConc)
    \/ ExecChildren(t, CfgConc)

SpecConc == InitConc /\ [][NextConc]_vars

-----------------------------------------------------------------------------
(* Properties of the event log and of the run lifecycle (SpecFault).       *)

Terminal(status) == status \in {"succeeded", "failed"}

\* the events of run r carry seq 1..N, the first is RUN_STARTED and the last
\* RUN_FINISHED
Bracketed(r) ==
  LET e == events[r]
  IN  /\ Len(e) >= 1
      /\ \A i \in DOMAIN e : e[i].seq = i
      /\ e[1].type = "RUN_STARTED"
      /\ e[Len(e)].type = "RUN_FINISHED"

\* C1: for every run on which executeRun has returned, the events have seq
\* exactly 1..N, the event with seq 1 is RUN_STARTED and the event with seq N
\* is RUN_FINISHED.
C1_ReturnedRunIsBracketed == \A r \in hist.returned : Bracketed(r)

\* executeRun has returned on a run whose first event is ERROR: the insertion
\* of RUN_STARTED was rejected and the catch block wrote the whole log
C1_ErrorFirst ==
  \E r \in hist.returned :
    /\ events[r] # <<>>
    /\ events[r][1].type = "ERROR"
    /\ events[r][1].seq = 1
    /\ runs[r].status = "failed"

\* C2: a run with status succeeded or failed has endedAt set, output set iff
\* succeeded and error set iff failed; a running run has none of the three;
\* also after the run-boundary handler ran for a failure of a step that
\* follows the success write.
C2_TerminalFields ==
  \A r \in RunIds :
    /\ Terminal(runs[r].status) =>
         /\ runs[r].ended
         /\ runs[r].output.set <=> runs[r].status = "succeeded"
         /\ runs[r].error.set <=> runs[r].status = "failed"
    /\ runs[r].status = "running" =>
         ~runs[r].ended /\ ~runs[r].output.set /\ ~runs[r].error.set

\* a failed run that keeps the output of its success write beside its error
C2_OutputAndError ==
  \E r \in RunIds :
    /\ runs[r].status = "failed"
    /\ runs[r].output.set
    /\ runs[r].error.set
    /\ runs[r].error.message = StoreError

\* C3: every run is created with status running and its status changes
\* exactly once, to succeeded or failed; a terminal status never changes.
C3_StatusChangesOnce ==
  [][/\ \A r \in DOMAIN runs' \ DOMAIN runs : runs'[r].status = "running"
     /\ \A r \in DOMAIN runs :
          /\ Terminal(runs[r].status) => runs'[r].status = runs[r].status
          /\ runs'[r].status # runs[r].status => Terminal(runs'[r].status)]_vars

\* executeRun has returned on a failed run whose output is written: the run
\* was succeeded before it became failed
C3_FailedAfterSucceeded ==
  \E r \in hist.returned :
    /\ runs[r].status = "failed"
    /\ runs[r].output.set
    /\ runs[r].error.lastEventSeq = Len(events[r]) - 2

-----------------------------------------------------------------------------
(* The spawn cap (SpecCap).                                                *)

RunsOfRoot(root) == {r \in RunIds : runs[r].rootRunId = root}

\* C4: after any sequence of run.start calls and the plans they execute,
\* run.start calls with parentRunId included, the runs that share one
\* rootRunId are at most 11, the root and 10 descendants.
C4_AtMostElevenPerRoot ==
  \A root \in RunIds : Cardinality(RunsOfRoot(root)) <= SpawnLimit + 1

\* a twelfth run of one root, inserted by run.start with parentRunId
C4_TwelfthRunByRunStart ==
  \E r \in RunIds :
    /\ runs[r].byRpc
    /\ runs[r].parentRunId # 0
    /\ Cardinality(RunsOfRoot(runs[r].rootRunId)) = SpawnLimit + 2

-----------------------------------------------------------------------------
(* Properties of run trees (Spec, SpecRoot).                               *)

\* the runs on the parentRunId chain of r, r excluded
RECURSIVE Ancestors(_)
Ancestors(r) ==
  IF runs[r].parentRunId = 0 THEN {}
  ELSE {runs[r].parentRunId} \cup Ancestors(runs[r].parentRunId)

RECURSIVE RootOf(_)
RootOf(r) == IF runs[r].parentRunId = 0 THEN r ELSE RootOf(runs[r].parentRunId)

SlugOfRun(r) == agents[runs[r].agentId].slug

\* the runs a plan of p created, in the order of its runsToExecute
ChildrenOf(p) == {c \in RunIds : runs[c].parentRunId = p /\ ~runs[c].byRpc}

\* r is a child of a plan, and so is every run between r and its root
ByPlans(r) ==
  /\ runs[r].parentRunId # 0
  /\ \A a \in ({r} \cup Ancestors(r)) \ {RootOf(r)} : ~runs[a].byRpc

\* C5: in a completed run tree no child of a plan executes an agent whose
\* slug is the slug of an agent executed by one of its ancestors, whether the
\* child's agent comes from a resolution, from its slug or from the bootstrap
\* fallback.
C5_NoAncestorSlugAgain ==
  \A r \in RunIds :
    (ByPlans(r) /\ RootOf(r) \in hist.returned) =>
      \A a \in Ancestors(r) : SlugOfRun(r) # SlugOfRun(a)

\* a completed tree whose root executed the bootstrap agent and whose child,
\* requested with a slug that matches no agent, executed the bootstrap agent
C5_BootstrapUnderBootstrap ==
  \E r \in RunIds :
    /\ ByPlans(r)
    /\ runs[r].parentRunId = RootOf(r)
    /\ RootOf(r) \in hist.returned
    /\ SlugOfRun(r) = BOOTSTRAP_AGENT_SLUG
    /\ SlugOfRun(RootOf(r)) = BOOTSTRAP_AGENT_SLUG
    /\ runs[RootOf(r)].output.result.k = "merged"
    /\ runs[RootOf(r)].output.result.executedAgents = <<"x">>

\* the slug a plan of p requested for its child c
RequestedSlug(p, c) ==
  runs[p].output.result.executedAgents[Cardinality({d \in ChildrenOf(p) : d <= c})]

\* C6: when a child run of a plan fails, the parent executes every entry of
\* runsToExecute, ends succeeded, and childResultsBySlug[slug] of its output is
\* {error: the child's failure message}.
C6_FailedChildCaptured ==
  \A p \in hist.returned :
    (\E c \in ChildrenOf(p) : runs[c].status = "failed") =>
      /\ runs[p].status = "succeeded"
      /\ Cardinality(ChildrenOf(p)) = Len(runs[p].output.result.executedAgents)
      /\ \A c \in ChildrenOf(p) :
           runs[c].status = "failed" =>
             runs[p].output.result.childResultsBySlug[RequestedSlug(p, c)]
               = ErrorResult(runs[c].error.message)

\* a parent that succeeded after all its children ran, one of them failed, and
\* whose childResultsBySlug holds null for the failed child
C6_FailedChildIsNull ==
  \E p \in hist.returned :
    /\ runs[p].status = "succeeded"
    /\ runs[p].output.result.k = "merged"
    /\ Cardinality(ChildrenOf(p)) = Len(runs[p].output.result.executedAgents)
    /\ \E c \in ChildrenOf(p) :
         /\ runs[c].status = "failed"
         /\ runs[c].error.message # NoMsg
         /\ runs[p].output.result.childResultsBySlug[RequestedSlug(p, c)] = [k |-> "null"]

\* the executeRun activations in progress
Frames == UNION {Range(tasks[t].stack) : t \in DOMAIN tasks}

\* C8: resolving the same plan a second time with identical agentsToCreate
\* inserts no new agent version, also when several of its specs resolve to
\* the same agent with different system prompts.
C8_SecondResolutionInsertsNothing ==
  \A f \in Frames : f.again => f.inserted = 0

\* the second resolution of the plan [SpecA1, SpecA2] (one slug, two prompts)
\* has ended and has inserted two versions
C8_SecondResolutionInsertedTwo ==
  \E f \in Frames :
    /\ f.again
    /\ f.atc = <<SpecA1, SpecA2>>
    /\ f.si > Len(f.atc)
    /\ f.inserted = 2

\* C9: rootRunId is the id of the root of the parentRunId chain: a run
\* without parent has its own id, a run with a parent has its parent's
\* rootRunId; for runs created by the executor and by run.start.
C9_RootOfParentChain ==
  \A r \in RunIds :
    /\ runs[r].rootRunId = RootOf(r)
    /\ runs[r].parentRunId = 0 => runs[r].rootRunId = r
    /\ runs[r].parentRunId # 0 => runs[r].rootRunId = runs[runs[r].parentRunId].rootRunId

\* a run created by run.start and a run created by a plan, each with a
\* parent that is not a root
C9_BothCreatorsBelowNonRoot ==
  /\ \E r \in RunIds :
       runs[r].byRpc /\ runs[r].parentRunId # 0 /\ runs[runs[r].parentRunId].parentRunId # 0
  /\ \E r \in RunIds :
       ~runs[r].byRpc /\ runs[r].parentRunId # 0 /\ runs[runs[r].parentRunId].parentRunId # 0

DepthOfRun(r) == readRoutingState(runs[r].context).routingDepth

\* C10: for every run with a parentRunId, the routingDepth read from its
\* context is the routingDepth its parent read plus 1; for children of a
\* plan and for runs created by run.start with parentRunId.
C10_DepthIsParentPlusOne ==
  \A r \in RunIds :
    runs[r].parentRunId # 0 => DepthOfRun(r) = DepthOfRun(runs[r].parentRunId) + 1

\* a run created by run.start with parentRunId whose context carries no
\* routingState: it reads depth 0 under a parent that read 0 or more
C10_RunStartKeepsClientDepth ==
  \E r \in RunIds :
    /\ runs[r].byRpc
    /\ runs[r].parentRunId # 0
    /\ runs[r].context = NoContext
    /\ DepthOfRun(r) = 0
    /\ DepthOfRun(r) # DepthOfRun(runs[r].parentRunId) + 1

-----------------------------------------------------------------------------
(* Version numbers under concurrent requests (SpecConc).                   *)

VersionsOf(a) == {v \in VersionIds : agentVersions[v].agentId = a}
VersionNumbers(a) == {agentVersions[v].version : v \in VersionsOf(a)}

\* C7: under any interleaving of plan resolutions and agent.updatePrompt
\* calls, the versions of each agent have pairwise distinct numbers and the
\* numbers are exactly 1..k.
C7_VersionsDistinctAndContiguous ==
  \A a \in AgentIds :
    /\ \A v, w \in VersionsOf(a) :
         agentVersions[v].version = agentVersions[w].version => v = w
    /\ VersionNumbers(a) = 1 .. Cardinality(VersionsOf(a))

\* two version documents of one agent with the same number, both written by
\* agent.updatePrompt
C7_TwoUserVersionsSameNumber ==
  \E v, w \in VersionIds :
    /\ v # w
    /\ agentVersions[v].agentId = agentVersions[w].agentId
    /\ agentVersions[v].version = agentVersions[w].version
    /\ agentVersions[v].createdBy = "user"
    /\ agentVersions[w].createdBy = "user"

-----------------------------------------------------------------------------
(* Plan validation and the outcome of a run (Spec).                        *)

\* the runs executeRun has returned on, with the answer their model gave
Answered == hist.returned \cap DOMAIN hist.seen

\* the checks that precede the loop over runsToExecute pass for answer o
PassesBeforeLoop(o) ==
  /\ o.role = "specialist" =>
       /\ Len(o.atc) = 0
       /\ Len(o.rte) <= 1
       /\ \A i \in DOMAIN o.rte : o.rte[i] \in o.routers
  /\ o.depth < DefaultMaxDepth \/ Len(o.rte) = 0
  /\ Len(o.rte) <= DefaultMaxChildren

\* entry i of runsToExecute is a visited slug and the loop reaches it
VisitedAt(o, i) ==
  /\ o.rte[i] \in Range(o.vis)
  /\ \A j \in 1 .. i - 1 : o.rte[j] # "" /\ o.rte[j] \notin Range(o.vis)
  /\ \A j, k \in 1 .. i : j < k => o.rte[j] # o.rte[k]

\* the log of run r holds one ERROR event, followed by RUN_FINISHED, the last
OneErrorThenFinished(r) ==
  LET e == events[r]
  IN  /\ Len(e) >= 2
      /\ e[Len(e)].type = "RUN_FINISHED"
      /\ e[Len(e) - 1].type = "ERROR"
      /\ Cardinality({i \in DOMAIN e : e[i].type = "ERROR"}) = 1

AntiLoopFailure(r, slug) ==
  /\ runs[r].status = "failed"
  /\ runs[r].error.message = <<"Slug already executed in this run tree", slug>>
  /\ ChildrenOf(r) = {}
  /\ OneErrorThenFinished(r)

\* C11 (as stated): a plan whose runsToExecute contains a slug of the run's
\* visitedSlugs fails the run with "Slug already executed in this run tree:
\* <slug>", creates no child run, and the log has exactly one ERROR event,
\* immediately before RUN_FINISHED.
C11_VisitedSlugFailsAntiLoop ==
  \A r \in Answered :
    LET o == hist.seen[r]
    IN  (o.type = "plan" /\ \E i \in DOMAIN o.rte : o.rte[i] \in Range(o.vis)) =>
          \E i \in DOMAIN o.rte : o.rte[i] \in Range(o.vis) /\ AntiLoopFailure(r, o.rte[i])

\* C11 (amended): the same, for a plan that passes the checks made before
\* the anti-loop check: role discipline, depth, fan-out, and the entries
\* before the visited one have a slug, are not visited and do not repeat.
C11_VisitedSlugFailsWhenReached ==
  \A r \in Answered :
    LET o == hist.seen[r]
    IN  \A i \in DOMAIN o.rte :
          (o.type = "plan" /\ PassesBeforeLoop(o) /\ VisitedAt(o, i)) =>
            AntiLoopFailure(r, o.rte[i])

\* a run that read visitedSlugs [a] from its context, was answered a plan
\* with runsToExecute [a] and has failed on the anti-loop check
C11_VisitedFromContextRejected ==
  \E r \in Answered :
    /\ runs[r].context.visitedSlugs = <<"a">>
    /\ hist.seen[r].type = "plan"
    /\ hist.seen[r].rte = <<"a">>
    /\ PassesBeforeLoop(hist.seen[r])
    /\ AntiLoopFailure(r, "a")

-----------------------------------------------------------------------------
(* SpecPlan: one client at a time, three runs; plans that create agents,   *)
(* one of them with a spec that has no systemPrompt after a valid spec,    *)
(* one that names a visited slug, and two final answers.                   *)

MaxRunsPlan == 3

SpecNoPrompt == AgentSpec("b", <<"B">>, <<>>, <<>>, <<>>)

ResponsesPlan ==
  {Final([k |-> "res", v |-> "r1"]), Final([k |-> "res", v |-> "r2"]),
   Plan(<<SpecA1, SpecNoPrompt>>, <<>>),
   Plan(<<SpecA2>>, <<"a">>), Plan(<<SpecA1>>, <<BOOTSTRAP_AGENT_SLUG>>)}

CfgPlan ==
  Cfg(1, MaxRunsPlan, MaxRunsPlan, 0, DefaultMaxDepth, DefaultMaxChildren,
      ResponsesPlan, {BOOTSTRAP_AGENT_SLUG}, {NoContext}, "none")

NextPlan ==
  \E t \in Tasks(CfgPlan) :
    \/ SessionCreate(t)
    \/ handleRunStart(t, CfgPlan)
    \/ handleRunStartEnd(t)
    \/ ExecCore(t, CfgPlan)
    \/ ExecAgents(t, CfgPlan)
    \/ ExecChildren(t, CfgPlan)

SpecPlan == Init /\ [][NextPlan]_vars

-----------------------------------------------------------------------------
(* A plan that violates a check (SpecPlan).                                *)

\* the validity check of one agentsToCreate entry fails
InvalidSpec(spec) == spec.slug = "" \/ spec.name = <<>> \/ spec.systemPrompt = <<>>

\* the plan of an activation violates a check of executeRun or has an
\* agentsToCreate entry that spawnAgentsFromPlan rejects
InvalidPlan(f) ==
  /\ f.type = "plan"
  /\ f.pc \notin {"start", "prompt", "request", "model"}
  /\ \/ ~PassesBeforeLoop(f)
     \/ CheckRunSpecs(f.rte, Range(f.vis), {}) # NoMsg
     \/ f.pc = "validate" /\ enforceSpawnCap(runs[f.run], Len(f.rte))
     \/ f.msg = <<"Spawn cap exceeded", "">>
     \/ \E i \in DOMAIN f.atc : InvalidSpec(f.atc[i])

\* the events of a type in the log of a run
EventsOfType(log, type) == {i \in DOMAIN log : log[i].type = type}

\* C12: while the activation in progress has a plan that violates a check, its
\* steps emit no SPAWN_AGENT_REQUEST, insert or modify no agent and no agent
\* version and create no run, wherever the invalid agentsToCreate entry stands
C12_InvalidPlanHasNoEffect ==
  [][\A t \in DOMAIN tasks :
       (tasks[t].stack # <<>> /\ InvalidPlan(Top(t)) /\ tasks'[t] # tasks[t])
       => /\ agents' = agents
          /\ agentVersions' = agentVersions
          /\ DOMAIN runs' = DOMAIN runs
          /\ EventsOfType(events'[Top(t).run], "SPAWN_AGENT_REQUEST")
               = EventsOfType(events[Top(t).run], "SPAWN_AGENT_REQUEST")]_vars

\* a run failed on the entry without systemPrompt after it announced the plan
\* and inserted the agent of the entry before
C12_AgentInsertedBeforeInvalidSpec ==
  \E r \in hist.returned :
    /\ runs[r].status = "failed"
    /\ runs[r].error.message = <<"agentsToCreate entries require slug, name, systemPrompt", "">>
    /\ EventsOfType(events[r], "SPAWN_AGENT_REQUEST") # {}
    /\ \E a \in AgentIds : agents[a].origin = r /\ agents[a].active \in VersionIds

-----------------------------------------------------------------------------
(* The catch block of executeRun (SpecFault).                              *)

\* executeRun is over for run r: the run is terminal and no activation is left
Over(r) == Terminal(runs[r].status) /\ \A f \in Frames : f.run # r

\* the log of a failed run ends with ERROR and RUN_FINISHED {failed}, and
\* lastEventSeq is the highest seq the log had before them
FailureRecorded(r) ==
  LET e == events[r]
      n == Len(e)
  IN  /\ runs[r].error.set
      /\ n >= 2
      /\ e[n - 1].type = "ERROR"
      /\ e[n].type = "RUN_FINISHED" /\ e[n].status = "failed"
      /\ runs[r].error.lastEventSeq = e[n - 1].seq - 1
      /\ runs[r].error.lastEventSeq = SetMax({e[i].seq : i \in 1 .. n - 2})

\* C13: once executeRun is over for a run in which a step failed, the run is
\* failed with error.message and error.lastEventSeq the highest seq the log
\* had at the failure, one less than the seq of ERROR, and ERROR and
\* RUN_FINISHED {failed} are the last two events; a succeeded run has no ERROR
C13_FailureRecordedAtEnd ==
  \A r \in RunIds :
    Over(r) =>
      /\ runs[r].status = "failed" => FailureRecorded(r)
      /\ runs[r].status = "succeeded" => EventsOfType(events[r], "ERROR") = {}

\* executeRun is over for a run that failed on the model's answer and whose
\* log has no ERROR: the insertion of ERROR was rejected in the catch block
C13_FailedWithoutError ==
  \E r \in RunIds :
    /\ Over(r)
    /\ runs[r].status = "failed"
    /\ runs[r].error.message = <<"Model response missing type plan/final", "">>
    /\ runs[r].error.lastEventSeq = 3
    /\ EventsOfType(events[r], "ERROR") = {}
    /\ events[r][Len(events[r])].type = "MODEL_REQUEST"

-----------------------------------------------------------------------------
(* The response of run.start (SpecFault).                                  *)

\* run.start has responded {runId} to the request of task t
Responded(t) ==
  tasks[t].kind = "idle" /\ tasks[t].response = "result" /\ tasks[t].runId # 0

\* the run and every run whose parent chain reaches it
TreeBelow(runId) == {r \in RunIds : r = runId \/ runId \in Ancestors(r)}

\* C14: when run.start has responded {runId}, the run and every run whose
\* parent chain reaches it are succeeded or failed: none is left running
C14_RespondedTreeTerminal ==
  \A t \in DOMAIN tasks :
    Responded(t) => \A r \in TreeBelow(tasks[t].runId) : Terminal(runs[r].status)

\* run.start responded {runId} for a failed run that has a child left running
\* with an empty log: the insertion of CHILD_RUN_STARTED was rejected
C14_ChildLeftRunning ==
  \E t \in DOMAIN tasks :
    /\ Responded(t)
    /\ runs[tasks[t].runId].status = "failed"
    /\ runs[tasks[t].runId].error.message = StoreError
    /\ \E r \in ChildrenOf(tasks[t].runId) :
         runs[r].status = "running" /\ events[r] = <<>>

-----------------------------------------------------------------------------
(* A final answer (SpecPlan).                                              *)

\* the types of the events of a log, in order
EventTypes(log) == [i \in DOMAIN log |-> log[i].type]

\* executeRun returned on a run whose model answered {type: final, result: R}:
\* the run is succeeded with output.result = R, its log is the five events
\* with seq 1..5, and it has no child run and is the origin of no agent
FinalOutcome(r) ==
  /\ runs[r].status = "succeeded"
  /\ runs[r].output = [set |-> TRUE, result |-> hist.seen[r].result]
  /\ ~runs[r].error.set
  /\ EventTypes(events[r]) =
       <<"RUN_STARTED", "PROMPT_LOADED", "MODEL_REQUEST", "MODEL_RESPONSE", "RUN_FINISHED">>
  /\ \A i \in DOMAIN events[r] : events[r][i].seq = i
  /\ events[r][5].status = "succeeded"
  /\ {c \in RunIds : runs[c].parentRunId = r /\ ~runs[c].byRpc} = {}
  /\ \A a \in AgentIds : agents[a].origin # r

\* the activation in progress of task t has a final answer
FinalInProgress(t) ==
  /\ tasks[t].stack # <<>>
  /\ Top(t).type = "final"
  /\ Top(t).pc \notin {"start", "prompt", "request", "model"}

\* C15: a run whose model answered {type: final, result: R} ends succeeded with
\* output.result = R and the five events RUN_STARTED, PROMPT_LOADED,
\* MODEL_REQUEST, MODEL_RESPONSE, RUN_FINISHED, and the steps made for it after
\* the answer create no agent, no agent version and no run
C15_FinalAnswerIsStored ==
  [][/\ \A r \in Answered' : hist'.seen[r].type = "final" => FinalOutcome(r)'
     /\ \A t \in DOMAIN tasks :
          (FinalInProgress(t) /\ tasks'[t] # tasks[t])
          => /\ agents' = agents
             /\ agentVersions' = agentVersions
             /\ DOMAIN runs' = DOMAIN runs]_vars

\* two runs answered final with different results and each stored its own
C15_TwoFinalResultsStored ==
  \E r1, r2 \in Answered :
    /\ hist.seen[r1].type = "final" /\ hist.seen[r2].type = "final"
    /\ hist.seen[r1].result = [k |-> "res", v |-> "r1"]
    /\ hist.seen[r2].result = [k |-> "res", v |-> "r2"]
    /\ runs[r1].output.result = [k |-> "res", v |-> "r1"]
    /\ runs[r2].output.result = [k |-> "res", v |-> "r2"]
    /\ Len(events[r1]) = 5 /\ Len(events[r2]) = 5

-----------------------------------------------------------------------------
(* SpecPin: two requests in progress at a time, each a run.start, an       *)
(* agent.updatePrompt or an agent.setActiveVersion; plans that create an   *)
(* agent, give it a second version and run it.                             *)

MaxRunsPin == 2
MaxRpcPin == 2

ResponsesPin ==
  {Final([k |-> "res", v |-> "r1"]), BadResponse, Plan(<<SpecA1, SpecA2>>, <<"a">>)}

CfgPin ==
  Cfg(2, MaxRunsPin, MaxRpcPin, 0, DefaultMaxDepth, DefaultMaxChildren,
      ResponsesPin, {BOOTSTRAP_AGENT_SLUG}, {NoContext}, "none")

InitPin ==
  /\ InitStore
  /\ tasks = [t \in Tasks(CfgPin) |-> IdleTask]

NextPin ==
  \E t \in Tasks(CfgPin) :
    \/ SessionCreate(t)
    \/ handleRunStart(t, CfgPin)
    \/ handleRunStartEnd(t)
    \/ handleAgentUpdatePrompt(t, CfgPin)
    \/ handleAgentUpdatePromptInsert(t)
    \/ handleAgentUpdatePromptSet(t)
    \/ handleAgentSetActiveVersion(t)
    \/ ExecCore(t, CfgPin)
    \/ ExecAgents(t, CfgPin)
    \/ ExecChildren(t, CfgPin)

SpecPin == InitPin /\ [][NextPin]_vars

-----------------------------------------------------------------------------
(* The active version of an agent (SpecConc).                              *)

\* activeVersionId of agent a refers to a version of a
ActiveVersionValid(a) ==
  /\ agents[a].active \in VersionIds
  /\ agentVersions[agents[a].active].agentId = a

\* C16: in every reachable state, the states between two store operations of
\* an agent creation included, activeVersionId of every agent refers to an
\* existing agent version whose agentId is that agent
C16_ActiveVersionExists == \A a \in AgentIds : ActiveVersionValid(a)

\* a plan has inserted agent a and not yet its version 1, while the other
\* request executes a run: activeVersionId of a refers to no document
C16_AgentWithoutVersionObserved ==
  \E t, u \in DOMAIN tasks :
    /\ t # u
    /\ At(t, "spawnAgentVersion")
    /\ ~ActiveVersionValid(Top(t).newAgent)
    /\ agents[Top(t).newAgent].slug = "a"
    /\ tasks[u].kind = "runStart" /\ tasks[u].stack # <<>>
    /\ runs[tasks[u].runId].parentRunId = 0

-----------------------------------------------------------------------------
(* SpecSlug: two run.start requests in progress at a time and no other     *)
(* request; plans that propose slug a, two of them with the same spec.     *)

MaxRunsSlug == 3

ResponsesSlug ==
  {Final([k |-> "res", v |-> "r1"]), Plan(<<SpecA1>>, <<>>), Plan(<<SpecA2>>, <<"a">>)}

CfgSlug ==
  Cfg(2, MaxRunsSlug, MaxRunsSlug, 0, DefaultMaxDepth, DefaultMaxChildren,
      ResponsesSlug, {BOOTSTRAP_AGENT_SLUG}, {NoContext}, "none")

InitSlug ==
  /\ InitStore
  /\ tasks = [t \in Tasks(CfgSlug) |-> IdleTask]

NextSlug ==
  \E t \in Tasks(CfgSlug) :
    \/ SessionCreate(t)
    \/ handleRunStart(t, CfgSlug)
    \/ handleRunStartEnd(t)
    \/ ExecCore(t, CfgSlug)
    \/ ExecAgents(t, CfgSlug)
    \/ ExecChildren(t, CfgSlug)

SpecSlug == InitSlug /\ [][NextSlug]_vars

-----------------------------------------------------------------------------
(* Two plans that propose the same new slug (SpecSlug).                    *)

\* an activation is between the first and the last store operation of the
\* resolution of a spec
Resolving == \E f \in Frames : f.pc \in {"spawnVersion", "spawnAgent", "spawnAgentVersion"}

\* the versions of agent a that carry version number n
VersionsNumbered(a, n) == {v \in VersionsOf(a) : agentVersions[v].version = n}

\* the agents that plans created
PlanAgents == {a \in AgentIds : agents[a].origin # 0}

\* run r failed on the unique index of agents.slug
HitSlugIndex(r) ==
  /\ runs[r].status = "failed"
  /\ runs[r].error.message[1] = "E11000 duplicate key"

\* C17: once the plans that proposed a previously unknown slug have finished
\* their store operations, in whatever order these interleaved, one agent has
\* that slug, it has exactly one version numbered 1, and a run failed on the
\* unique index only if the agent of the slug was inserted by another run
C17_OneAgentOneFirstVersion ==
  ~Resolving =>
    /\ \A a \in PlanAgents :
         /\ \A b \in AgentIds : agents[b].slug = agents[a].slug => b = a
         /\ Cardinality(VersionsNumbered(a, 1)) = 1
    /\ \A r \in RunIds :
         HitSlugIndex(r) =>
           \E a \in PlanAgents :
             agents[a].slug = runs[r].error.message[2] /\ agents[a].origin # r

\* two plans with the same spec for slug a have finished and each inserted a
\* version numbered 1 with the same prompt for the one agent a
C17_TwoFirstVersions ==
  /\ ~Resolving
  /\ \E a \in PlanAgents :
       /\ agents[a].slug = "a"
       /\ \E v, w \in VersionsNumbered(a, 1) :
            /\ v # w
            /\ agentVersions[v].createdBy = "agent" /\ agentVersions[w].createdBy = "agent"
            /\ agentVersions[v].systemPrompt = <<"p">>
            /\ agentVersions[w].systemPrompt = <<"p">>

-----------------------------------------------------------------------------
(* The pinned version of a run (SpecPin).                                  *)

\* the activation has loaded its prompt
PromptLoaded(f) == f.agent # 0

\* C18: no step changes the agentVersionId of an existing run, and the prompt
\* an activation loaded for the model is the systemPrompt of the version its
\* run is pinned to, whatever agent.updatePrompt, agent.setActiveVersion and
\* the plans made of the agent's activeVersionId since the run was created
C18_RunKeepsItsVersion ==
  [][/\ \A r \in DOMAIN runs : runs'[r].agentVersionId = runs[r].agentVersionId
     /\ \A t \in DOMAIN tasks' : \A i \in DOMAIN tasks'[t].stack :
          LET f == tasks'[t].stack[i]
          IN  PromptLoaded(f) =>
                f.prompt = agentVersions'[runs'[f.run].agentVersionId].systemPrompt]_vars

\* an activation loaded the prompt of its pinned version when the agent's
\* activeVersionId already was another version with another prompt
C18_LoadedWhileActiveDiffers ==
  \E f \in Frames :
    /\ PromptLoaded(f)
    /\ f.activeVersionId \in VersionIds
    /\ f.activeVersionId # runs[f.run].agentVersionId
    /\ agentVersions[f.activeVersionId].systemPrompt
         # agentVersions[runs[f.run].agentVersionId].systemPrompt
    /\ f.prompt = agentVersions[runs[f.run].agentVersionId].systemPrompt

-----------------------------------------------------------------------------
(* SpecDepth: one client at a time; runs started on the bootstrap agent or *)
(* on the specialist s, with no context or with a context that carries     *)
(* routingDepth = maxDepth; plans that name one child.                     *)

MaxRunsDepth == 4
MaxRpcDepth == 2

SpecS1 == AgentSpec("s", <<"S">>, <<"p">>, <<"specialist">>, <<>>)
SpecS2 == AgentSpec("s", <<"S">>, <<"q">>, <<"specialist">>, <<>>)

ResponsesDepth ==
  {Final([k |-> "res", v |-> "r1"]), Plan(<<SpecS1, SpecS2>>, <<>>),
   Plan(<<>>, <<"x">>), Plan(<<>>, <<"y">>)}

ContextsDepth ==
  {NoContext, [visitedSlugs |-> <<>>, hasDepth |-> TRUE, routingDepth |-> DefaultMaxDepth]}

CfgDepth ==
  Cfg(1, MaxRunsDepth, MaxRpcDepth, 0, DefaultMaxDepth, DefaultMaxChildren,
      ResponsesDepth, {BOOTSTRAP_AGENT_SLUG, "s"}, ContextsDepth, "none")

NextDepth ==
  \E t \in Tasks(CfgDepth) :
    \/ SessionCreate(t)
    \/ handleRunStart(t, CfgDepth)
    \/ handleRunStartEnd(t)
    \/ ExecCore(t, CfgDepth)
    \/ ExecAgents(t, CfgDepth)
    \/ ExecChildren(t, CfgDepth)

SpecDepth == Init /\ [][NextDepth]_vars

-----------------------------------------------------------------------------
(* A plan at routingDepth = maxDepth (SpecDepth).                          *)

\* the answered plans of runs that read routingDepth = maxDepth
AtMaxDepth ==
  {r \in Answered : hist.seen[r].type = "plan" /\ hist.seen[r].depth = DefaultMaxDepth}

DepthFailure(r) ==
  /\ runs[r].status = "failed"
  /\ runs[r].error.message = <<"Routing depth exceeded", "">>

\* no run that a plan created reads a routingDepth above maxDepth
ChildrenWithinDepth == \A r \in RunIds : ~runs[r].byRpc => DepthOfRun(r) <= DefaultMaxDepth

RolePasses(o) ==
  \/ o.role # "specialist"
  \/ /\ o.atc = <<>>
     /\ Len(o.rte) <= 1
     /\ \A i \in DOMAIN o.rte : o.rte[i] \in o.routers

-----------------------------------------------------------------------------
(* The spawn cap check (SpecCap).                                          *)

\* the runs of the root of run r, the root excluded
Descendants(r) == Cardinality(RunsOfRoot(runs[r].rootRunId)) - 1

\* the plan of activation f asks for more than the limit leaves
OverLimit(f) == Descendants(f.run) + Len(f.rte) > SpawnLimit

CapMessage == <<"Spawn cap exceeded", "">>

\* the step of task t takes its activation from the plan checks to the catch
\* block with "Spawn cap exceeded"
CapRejects(t) ==
  LET g == tasks'[t].stack[Len(tasks[t].stack)]
  IN  g.pc = "catch" /\ g.msg = CapMessage

\* the plan passes every check that comes before enforceSpawnCap
PassesBeforeCap(f) == PassesBeforeLoop(f) /\ CheckRunSpecs(f.rte, Range(f.vis), {}) = NoMsg

\* C20 (as stated): the plan checks reject a plan with "Spawn cap exceeded"
\* exactly when the descendants of its root plus the length of runsToExecute
\* exceed 10
C20_CapRejectsExactlyAboveTen ==
  [][\A t \in DOMAIN tasks :
       (At(t, "validate") /\ tasks'[t] # tasks[t]) => (CapRejects(t) <=> OverLimit(Top(t)))]_vars

\* C20 (amended): the same for a plan that passes the checks made before
\* enforceSpawnCap; a plan that fails one of them is not rejected with "Spawn
\* cap exceeded"
C20_CapRejectsAboveTenWhenReached ==
  [][\A t \in DOMAIN tasks :
       (At(t, "validate") /\ tasks'[t] # tasks[t]) =>
         IF PassesBeforeCap(Top(t)) THEN CapRejects(t) <=> OverLimit(Top(t))
         ELSE ~CapRejects(t)]_vars

\* the last run started under a root with 10 descendants, itself included,
\* answered a plan that names one unvisited slug and failed with "Spawn cap
\* exceeded" without a child
C20_EleventhChildRejected ==
  \E r \in Answered :
    /\ r = Len(runs)
    /\ Descendants(r) = SpawnLimit
    /\ hist.seen[r].rte = <<"x">>
    /\ PassesBeforeCap(hist.seen[r])
    /\ runs[r].status = "failed"
    /\ runs[r].error.message = CapMessage
    /\ ChildrenOf(r) = {}

-----------------------------------------------------------------------------
(* SpecEvents: a client that starts one run and clients that poll the      *)
(* events of a run with run.events while it executes and afterwards; two   *)
(* requests in progress at a time, as in SpecConc.                         *)

MaxRunsEvents == 2

CfgEvents ==
  Cfg(2, MaxRunsEvents, 1, 0, DefaultMaxDepth, DefaultMaxChildren,
      ResponsesFault, {BOOTSTRAP_AGENT_SLUG}, {NoContext}, "none")

NextEvents ==
  \E t \in Tasks(CfgEvents) :
    \/ SessionCreate(t)
    \/ handleRunStart(t, CfgEvents)
    \/ handleRunStartEnd(t)
    \/ handleRunEvents(t, CfgEvents)
    \/ ExecCore(t, CfgEvents)
    \/ ExecChildren(t, CfgEvents)

SpecEvents == InitConc /\ [][NextEvents]_vars

-----------------------------------------------------------------------------
(* The result of run.events (SpecEvents).                                  *)

\* the events of run runId in the store, in insertion order
LogOf(runId) == IF runId \in DOMAIN events THEN events[runId] ELSE <<>>

\* the result q of a run.events request is what the claim says of the store
ExactEvents(q) ==
  LET log == LogOf(q.runId)
      wanted == {i \in DOMAIN log : q.given => log[i].seq > q.sinceSeq}
  IN  /\ Len(q.events) = Cardinality(wanted)
      /\ Range(q.events) = {log[i] : i \in wanted}
      /\ \A j, k \in DOMAIN q.events : j < k => q.events[j].seq < q.events[k].seq
      /\ q.nextSeq = IF q.events # <<>> THEN q.events[Len(q.events)].seq + 1
                     ELSE IF q.given THEN q.sinceSeq + 1 ELSE 1

\* C21: run.events(runId, sinceSeq) returns exactly the events of that run
\* with seq > sinceSeq (all events when sinceSeq is absent), in ascending seq
\* order, and nextSeq is the seq of the last returned event plus 1, or
\* sinceSeq + 1 (1 when sinceSeq is absent) when no event is returned.
C21_RunEventsResult ==
  [][\A t \in DOMAIN tasks :
       (tasks[t].kind = "idle" /\ tasks'[t].kind = "idle" /\ tasks'[t].runEvents.runId # 0
          /\ tasks'[t].runEvents # tasks[t].runEvents)
         => ExactEvents(tasks'[t].runEvents)]_vars

\* a client polled a run that is executing with sinceSeq = 2 and received
\* the events from seq 3 on
C21_PolledWhileRunning ==
  \E t \in DOMAIN tasks :
    LET q == tasks[t].runEvents
    IN  /\ q.runId \in RunIds /\ runs[q.runId].status = "running"
        /\ q.given /\ q.sinceSeq = 2
        /\ Len(q.events) >= 2 /\ q.events[1].seq = 3
        /\ q.nextSeq = Len(q.events) + 3

-----------------------------------------------------------------------------
(* SpecReject: two run.start requests in progress at a time, on the        *)
(* bootstrap agent or on slug a, valid or with missing params, an unknown  *)
(* session or an unknown parentRunId; plans that create and update agent a. *)

MaxRunsReject == 3

CfgReject ==
  Cfg(2, MaxRunsReject, MaxRunsReject, 0, DefaultMaxDepth, DefaultMaxChildren,
      ResponsesSlug, {BOOTSTRAP_AGENT_SLUG, "a"}, {NoContext}, "none")

NextReject ==
  \E t \in Tasks(CfgReject) :
    \/ SessionCreate(t)
    \/ handleRunStart(t, CfgReject)
    \/ handleRunStartRejected(t, CfgReject)
    \/ handleRunStartEnd(t)
    \/ ExecCore(t, CfgReject)
    \/ ExecAgents(t, CfgReject)
    \/ ExecChildren(t, CfgReject)

SpecReject == InitConc /\ [][NextReject]_vars

-----------------------------------------------------------------------------
(* A run.start rejected before executeRun (SpecReject).                    *)

\* the errors run.start throws before it writes the run document
RunStartErrors ==
  {<<"sessionId and userMessage are required", "">>, <<"Session not found", "">>,
   <<"Active agent version missing", "">>, <<"parentRunId not found", "">>}

\* task t ends a run.start in this step with one of the errors
RejectedNow(t) ==
  /\ tasks[t].kind = "idle" /\ tasks'[t].kind = "idle"
  /\ tasks'[t] # tasks[t]
  /\ tasks'[t].msg \in RunStartErrors

\* C22: a run.start call rejected before execution (missing sessionId or
\* userMessage, unknown session, unknown parentRunId, or missing active
\* version) returns an RPC error and leaves the collections runs and events
\* unchanged: no run document is inserted and no event is emitted.
C22_RejectedRunStartWritesNoRun ==
  [][\A t \in DOMAIN tasks :
       RejectedNow(t) => /\ tasks'[t].response = "error"
                         /\ runs' = runs
                         /\ events' = events]_vars

\* a run.start on slug a was rejected with "Active agent version missing"
\* between the insertion of agent a and the insertion of its first version,
\* and another with "parentRunId not found" while runs exist
C22_RejectedInCreationWindow ==
  /\ \E t \in DOMAIN tasks :
       /\ tasks[t].response = "error"
       /\ tasks[t].msg = <<"Active agent version missing", "">>
  /\ runs # <<>>
  /\ AgentBySlug("a") # 0

-----------------------------------------------------------------------------
(* A failure inside executeRun (SpecEvents).                               *)

BadResponseMessage == <<"Model response missing type plan/final", "">>

-----------------------------------------------------------------------------
(* SpecFlow: one client that runs the saved workflows; every node runs the  *)
(* bootstrap agent, whose model answers a final result or without a type.  *)

MaxRunsFlow == 4

CfgFlow ==
  Cfg(1, MaxRunsFlow, MaxRunsFlow, 0, DefaultMaxDepth, DefaultMaxChildren,
      {Final([k |-> "res", v |-> "r1"]), BadResponse}, {BOOTSTRAP_AGENT_SLUG}, {NoContext}, "none")

NextFlow ==
  \E t \in Tasks(CfgFlow) :
    \/ SessionCreate(t)
    \/ handleWorkflowRun(t, CfgFlow)
    \/ handleWorkflowRunNode(t)
    \/ handleWorkflowRunNodeEnd(t)
    \/ ExecStart(t, CfgFlow)
    \/ ExecPrompt(t, CfgFlow)
    \/ ExecRequest(t, CfgFlow)
    \/ ExecModel(t, CfgFlow)
    \/ ExecFinal(t)
    \/ ExecFinish(t, CfgFlow)
    \/ ExecCatch(t)
    \/ ExecCatchError(t, CfgFlow)
    \/ ExecCatchFinish(t, CfgFlow)

SpecFlow == Init /\ [][NextFlow]_vars

-----------------------------------------------------------------------------
(* The workflow runner (SpecFlow).                                         *)

\* the number of nodes of the workflow of task t whose run has been started
NodesStarted(t) ==
  Len(tasks[t].wf.results) + (IF tasks[t].kind = "workflowRun" THEN 1 ELSE 0)

\* parent pid of node i has a recorded output: it is an earlier node whose
\* run produced an output
RecordedOutput(w, i, pid) ==
  \E k \in 1 .. i - 1 :
    /\ w.nodes[k].id = pid
    /\ k <= Len(w.results)
    /\ Terminal(w.results[k].status)
    /\ w.results[k].output.set

\* the workflow of task t has stopped at a node that lacks a parent output
StoppedAtMissingParent(t) ==
  LET w == tasks[t].wf
  IN  /\ tasks[t].kind = "idle" /\ w.nodes # <<>> /\ w.ni <= Len(w.nodes)
      /\ \E pid \in w.nodes[w.ni].parents : ~RecordedOutput(w, w.ni, pid)

\* C24: workflow.run visits the nodes in persisted order and starts a node's
\* run only after every declared parent of that node has completed; when a
\* node declares a parent with no recorded output (a parent that comes later,
\* is unknown, or whose run did not produce an output), the call fails with
\* "Parent outputs missing" and starts no run for that node or any later node.
C24_NodeRunsAfterParentOutputs ==
  \A t \in DOMAIN tasks :
    LET w == tasks[t].wf
    IN  /\ \A i \in 1 .. Len(w.results) : w.results[i].nodeId = w.nodes[i].id
        /\ \A i \in 1 .. NodesStarted(t) :
             \A pid \in w.nodes[i].parents : RecordedOutput(w, i, pid)
        /\ StoppedAtMissingParent(t) =>
             /\ tasks[t].response = "error"
             /\ tasks[t].msg = <<"Parent outputs missing for node", w.nodes[w.ni].id>>

\* the run of node n2 was started although the run of its parent n1 failed
\* and has no output
C24_NodeRanAfterFailedParent ==
  \E t \in DOMAIN tasks :
    LET w == tasks[t].wf
    IN  /\ NodesStarted(t) = 2
        /\ w.nodes[2].parents = {"n1"} /\ w.nodes[1].id = "n1"
        /\ w.results[1].status = "failed"
        /\ ~w.results[1].output.set
        /\ runs[w.results[1].runId].status = "failed"
        /\ ~runs[w.results[1].runId].output.set

\* a node's run starts only when each parent is an earlier node whose run
\* has ended, with or without output
ParentsEndedBeforeNode ==
  \A t \in DOMAIN tasks :
    LET w == tasks[t].wf
    IN  /\ \A i \in 1 .. Len(w.results) : w.results[i].nodeId = w.nodes[i].id
        /\ \A i \in 1 .. NodesStarted(t) :
             \A pid \in w.nodes[i].parents :
               \E k \in 1 .. i - 1 : w.nodes[k].id = pid /\ Terminal(w.results[k].status)

-----------------------------------------------------------------------------
(* routingUtils.summarizeResultForContext.  A JSON value is a record of    *)
(* one shape: k is its type, s the characters of a string, n a number, b a *)
(* boolean, keys the keys of an object in insertion order and vals the     *)
(* elements of an array or the values of an object.                        *)

StringLimit == 200
KeysLimit == 20
MaxKeys == 22       \* the keys of an object given to summarizeResultForContext
MaxItems == 3       \* the elements of an array given to it
MaxExtra == 10      \* the characters of a string beyond StringLimit

Value(k, s, n, b, keys, vals) == [k |-> k, s |-> s, n |-> n, b |-> b, keys |-> keys, vals |-> vals]
Null == Value("null", <<>>, 0, FALSE, <<>>, <<>>)
Undefined == Value("undefined", <<>>, 0, FALSE, <<>>, <<>>)
Str(s) == Value("string", s, 0, FALSE, <<>>, <<>>)
Num(n) == Value("number", <<>>, n, FALSE, <<>>, <<>>)
Bool(b) == Value("boolean", <<>>, 0, b, <<>>, <<>>)
Arr(vals) == Value("array", <<>>, 0, FALSE, <<>>, vals)
Obj(keys, vals) == Value("object", <<>>, 0, FALSE, keys, vals)

\* the text "...(truncated)"
TruncatedSuffix == <<".", ".", ".", "(", "t", "r", "u", "n", "c", "a", "t", "e", "d", ")">>

Min(a, b) == IF a <= b THEN a ELSE b

summarizeResultForContext(value) ==
  IF value.k \in {"null", "undefined"} THEN value
  ELSE IF value.k = "string"
    THEN IF Len(value.s) <= StringLimit THEN value
         ELSE Str(SubSeq(value.s, 1, StringLimit) \o TruncatedSuffix)
  ELSE IF value.k \in {"number", "boolean"} THEN value
  ELSE IF value.k = "array"
    THEN Obj(<<<<"t", "y", "p", "e">>, <<"l", "e", "n", "g", "t", "h">>>>,
             <<Str(<<"a", "r", "r", "a", "y">>), Num(Len(value.vals))>>)
  ELSE Obj(<<<<"t", "y", "p", "e">>, <<"k", "e", "y", "s">>,
             <<"t", "r", "u", "n", "c", "a", "t", "e", "d">>>>,
           <<Str(<<"o", "b", "j", "e", "c", "t">>),
             Arr([i \in 1 .. Min(Len(value.keys), KeysLimit) |-> Str(value.keys[i])]),
             Bool(Len(value.keys) > KeysLimit)>>)

\* the values given to summarizeResultForContext: strings around the limit,
\* arrays, objects with up to MaxKeys keys, numbers, booleans, null, undefined
Chars(n, ch) == [i \in 1 .. n |-> ch]
SummaryInputs ==
  {Null, Undefined, Bool(TRUE), Bool(FALSE)}
    \cup {Num(n) : n \in 0 .. MaxItems}
    \cup {Str(Chars(n, ch)) : n \in (0 .. MaxItems) \cup (StringLimit - 1 .. StringLimit + MaxExtra),
                              ch \in {"a", "."}}
    \cup {Arr([i \in 1 .. n |-> Num(i)]) : n \in 0 .. MaxItems}
    \cup {Arr(<<Str(Chars(StringLimit + 1, "a"))>>)}
    \cup {Obj([i \in 1 .. n |-> Chars(i, "k")], [i \in 1 .. n |-> Num(i)]) : n \in 0 .. MaxKeys}

(* SpecSummary: summarizeResultForContext applied to a value and again to   *)
(* its result.                                                             *)

InitSummary ==
  /\ InitStore
  /\ \E value \in SummaryInputs :
       tasks = <<[kind |-> "summarize", applied |-> 0, value |-> value, once |-> value,
                  twice |-> value]>>

Summarize ==
  /\ tasks[1].applied < 2
  /\ tasks' = [tasks EXCEPT
       ![1].applied = @ + 1,
       ![1].once = IF tasks[1].applied = 0 THEN summarizeResultForContext(tasks[1].value) ELSE @,
       ![1].twice = IF tasks[1].applied = 0 THEN summarizeResultForContext(tasks[1].value)
                    ELSE summarizeResultForContext(tasks[1].once)]
  /\ UNCHANGED <<agents, agentVersions, sessions, runs, events, faults, hist>>

SpecSummary == InitSummary /\ [][Summarize]_vars

\* the values the statement is about
Summarized(value) ==
  value.k \in {"object", "array"} \/ (value.k = "string" /\ Len(value.s) > StringLimit)

\* C25: summarizeResult is idempotent: for every value x that is an object,
\* an array or a string longer than 200 characters,
\* summarizeResult(summarizeResult(x)) is structurally identical to
\* summarizeResult(x).
C25_SummarizeIdempotent ==
  (tasks[1].applied = 2 /\ Summarized(tasks[1].value)) => tasks[1].twice = tasks[1].once

\* the array [1, 2, 3] was summarized to {type: "array", length: 3}, and the
\* summary of that is the summary of an object with the keys type and length
C25_ArraySummaryChanges ==
  /\ tasks[1].applied = 2
  /\ tasks[1].value = Arr(<<Num(1), Num(2), Num(3)>>)
  /\ tasks[1].once.keys = <<<<"t", "y", "p", "e">>, <<"l", "e", "n", "g", "t", "h">>>>
  /\ tasks[1].once.vals[2] = Num(3)
  /\ tasks[1].twice.keys[2] = <<"k", "e", "y", "s">>
  /\ tasks[1].twice # tasks[1].once

\* the second application leaves the summary of a string as it is
TruncatedStringStable ==
  (tasks[1].applied = 2 /\ tasks[1].value.k = "string") => tasks[1].twice = tasks[1].once

-----------------------------------------------------------------------------
(* SpecMerge: mergeStringArrays applied to string arrays a, b and c, nested *)
(* to the right and to the left.                                           *)

MaxMergeLen == 2    \* the length of an array given to mergeStringArrays

MergeInputs == UNION {[1 .. n -> {"x", "y", "z"}] : n \in 0 .. MaxMergeLen}

InitMerge ==
  /\ InitStore
  /\ \E a \in MergeInputs, b \in MergeInputs, c \in MergeInputs :
       tasks = <<[kind |-> "merge", applied |-> FALSE, a |-> a, b |-> b, c |-> c,
                  ab |-> <<>>, right |-> <<>>, left |-> <<>>]>>

Merge ==
  /\ ~tasks[1].applied
  /\ tasks' = [tasks EXCEPT
       ![1].applied = TRUE,
       ![1].ab = mergeStringArrays(tasks[1].a, tasks[1].b),
       ![1].right = mergeStringArrays(tasks[1].a, mergeStringArrays(tasks[1].b, tasks[1].c)),
       ![1].left = mergeStringArrays(mergeStringArrays(tasks[1].a, tasks[1].b), tasks[1].c)]
  /\ UNCHANGED <<agents, agentVersions, sessions, runs, events, faults, hist>>

SpecMerge == InitMerge /\ [][Merge]_vars

\* the position of the first occurrence of x in s
FirstIndex(s, x) == CHOOSE i \in DOMAIN s : s[i] = x /\ \A j \in 1 .. i - 1 : s[j] # x

\* m is s without its later duplicates: the elements of s, each once, in the
\* order of their first occurrences
FirstOccurrences(m, s) ==
  /\ Range(m) = Range(s)
  /\ \A i, j \in DOMAIN m : i # j => m[i] # m[j]
  /\ \A i, j \in DOMAIN m : i < j => FirstIndex(s, m[i]) < FirstIndex(s, m[j])

\* C26: mergeUnique(a, b) returns the elements of a followed by those of b
\* with every later duplicate removed (first-occurrence order preserved, no
\* element repeated), and it is associative: mergeUnique(a, mergeUnique(b, c))
\* = mergeUnique(mergeUnique(a, b), c) for all string sequences a, b, c.
C26_MergeUniqueAssociative ==
  tasks[1].applied =>
    /\ FirstOccurrences(tasks[1].ab, tasks[1].a \o tasks[1].b)
    /\ tasks[1].right = tasks[1].left

\* the arrays [x, y], [y, x] and [z, y] were merged: a and b have both
\* elements in common, and the result of both nestings is [x, y, z]
C26_MergedWithDuplicates ==
  /\ tasks[1].applied
  /\ tasks[1].a = <<"x", "y">> /\ tasks[1].b = <<"y", "x">> /\ tasks[1].c = <<"z", "y">>
  /\ tasks[1].ab = <<"x", "y">>
  /\ tasks[1].left = <<"x", "y", "z">>
  /\ tasks[1].right = <<"x", "y", "z">>

-----------------------------------------------------------------------------
(* SpecReuse: one client at a time that starts runs on the bootstrap agent  *)
(* and selects the active version of an agent with agent.setActiveVersion; *)
(* plans that propose slug a with prompt p or with prompt q, and plans     *)
(* that run a.                                                             *)

MaxRunsReuse == 3

ResponsesReuse ==
  {Final([k |-> "res", v |-> "r1"]), Plan(<<SpecA1>>, <<>>), Plan(<<SpecA2>>, <<>>),
   Plan(<<>>, <<"a">>)}

CfgReuse ==
  Cfg(1, MaxRunsReuse, MaxRunsReuse, 0, DefaultMaxDepth, DefaultMaxChildren,
      ResponsesReuse, {BOOTSTRAP_AGENT_SLUG}, {NoContext}, "none")

NextReuse ==
  \E t \in Tasks(CfgReuse) :
    \/ SessionCreate(t)
    \/ handleRunStart(t, CfgReuse)
    \/ handleRunStartEnd(t)
    \/ handleAgentSetActiveVersion(t)
    \/ ExecCore(t, CfgReuse)
    \/ ExecAgents(t, CfgReuse)
    \/ ExecChildren(t, CfgReuse)

SpecReuse == Init /\ [][NextReuse]_vars

-----------------------------------------------------------------------------
(* Reuse of a matched agent (SpecReuse).                                   *)

\* the prompt of the version of agent a with the highest number
LatestPrompt(a) ==
  LET latest == CHOOSE v \in VersionsOf(a) :
                  \A w \in VersionsOf(a) : agentVersions[w].version <= agentVersions[v].version
  IN  agentVersions[latest].systemPrompt

\* task t is about to resolve a valid spec that matches an existing agent
Matching(t) ==
  /\ At(t, "spawn")
  /\ ~InvalidSpec(Top(t).atc[Top(t).si])
  /\ findSimilarAgent(Top(t).atc[Top(t).si]).agent # 0

\* the resolution task t has recorded for the requested slug in this step
NewResolution(t, slug) ==
  LET res == Top(t).res'
  IN  res[ResolutionOf(res, slug)]

\* C27: whenever a plan's agent spec matches an existing agent and the
\* trimmed system prompt of that agent's latest (highest-numbered) version
\* equals the trimmed spec.systemPrompt, the resolution is a reuse (reused =
\* true, no version inserted, activeVersionId unchanged), regardless of which
\* version of the agent is currently active.
C27_LatestPromptEqualIsReuse ==
  [][\A t \in DOMAIN tasks :
       LET spec == Top(t).atc[Top(t).si]
           a == findSimilarAgent(spec).agent
       IN  (/\ Matching(t)
            /\ VersionsOf(a) # {}
            /\ Trim(LatestPrompt(a)) = Trim(spec.systemPrompt)
            /\ tasks'[t] # tasks[t])
           => /\ agentVersions' = agentVersions
              /\ agents'[a].active = agents[a].active
              /\ Top(t).pc' # "spawnVersion"
              /\ ResolutionOf(Top(t).res', spec.slug) # 0
              /\ NewResolution(t, spec.slug).reused]_vars

\* agent a has the versions 2 and 3 with the same prompt: a plan proposed the
\* prompt of version 2 while version 1 was the active one
C27_LatestPromptVersionedAgain ==
  \E a \in AgentIds : \E v2, v3 \in VersionsOf(a) :
    /\ agentVersions[v2].version = 2 /\ agentVersions[v3].version = 3
    /\ Trim(agentVersions[v2].systemPrompt) = Trim(agentVersions[v3].systemPrompt)
    /\ agentVersions[v3].createdBy = "agent"
    /\ agents[a].active = v3

-----------------------------------------------------------------------------
(* A new version on a matched agent (SpecSlug).                            *)

\* the prompt of the spec task t resolves differs from the prompt of the
\* active version of the agent it matches
PromptsDiffer(t) ==
  LET spec == Top(t).atc[Top(t).si]
      a == findSimilarAgent(spec).agent
  IN  /\ Matching(t)
      /\ agents[a].active \in VersionIds
      /\ Trim(agentVersions[agents[a].active].systemPrompt) # Trim(spec.systemPrompt)

Updated(matchedOn) ==
  IF matchedOn = "slug" THEN "slug-updated"
  ELSE IF matchedOn = "name" THEN "name-updated" ELSE "tags-updated"

\* C28: when a plan's agent spec matches an existing agent and the prompts
\* differ, exactly one version is appended to the matched agent with version
\* number (current maximum + 1), the agent's activeVersionId becomes that new
\* version, and the resolution has reused = false, createdNewVersion = true
\* and matchedOn equal to the match kind followed by "-updated"; no new agent
\* is inserted.
C28_DifferentPromptAppendsVersion ==
  [][\A t \in DOMAIN tasks :
       /\ (PromptsDiffer(t) /\ tasks'[t] # tasks[t])
            => /\ Top(t).pc' = "spawnVersion"
               /\ Top(t).sim' = findSimilarAgent(Top(t).atc[Top(t).si]).agent
               /\ Top(t).matchedOn' = findSimilarAgent(Top(t).atc[Top(t).si]).matchedOn
               /\ agents' = agents /\ agentVersions' = agentVersions
       /\ (At(t, "spawnVersion") /\ Top(t).latestVersion # 0 /\ tasks'[t] # tasks[t])
            => LET f == Top(t)
                   spec == f.atc[f.si]
                   added == DOMAIN agentVersions' \ DOMAIN agentVersions
               IN  /\ Cardinality(added) = 1
                   /\ \A v \in added :
                        /\ agentVersions'[v].agentId = f.sim
                        /\ agentVersions'[v].version = LatestVersion(f.sim) + 1
                        /\ agentVersions'[v].systemPrompt = spec.systemPrompt
                        /\ agents'[f.sim].active = v
                        /\ NewResolution(t, spec.slug).agentVersionId = v
                   /\ \A v \in DOMAIN agentVersions : agentVersions'[v] = agentVersions[v]
                   /\ DOMAIN agents' = DOMAIN agents
                   /\ NewResolution(t, spec.slug).agentId = f.sim
                   /\ ~NewResolution(t, spec.slug).reused
                   /\ NewResolution(t, spec.slug).createdNewVersion
                   /\ NewResolution(t, spec.slug).matchedOn = Updated(f.matchedOn)]_vars

\* two plans in progress at a time proposed another prompt for agent a: each
\* read version 1 as the latest one and each appended a version 2
C28_TwoPlansAppendedSameNumber ==
  \E a \in AgentIds : \E v, w \in VersionsOf(a) :
    /\ v # w
    /\ agentVersions[v].version = 2 /\ agentVersions[w].version = 2
    /\ agentVersions[v].createdBy = "agent" /\ agentVersions[w].createdBy = "agent"

-----------------------------------------------------------------------------
(* The search order of findSimilarAgent (SpecMatch): plans whose specs hit  *)
(* existing agents by slug, by name and by tags at once.                   *)

MaxRunsMatch == 3

SpecT1 == AgentSpec("t", <<"C">>, <<"p">>, <<"t">>, <<>>)
\* the slug of agent a, the name and the tag of agent t
SpecSlugNameTags == AgentSpec("a", <<"C">>, <<"p">>, <<"t">>, <<>>)
\* the name of agent a in lower case, the tag of agent t
SpecNameTags == AgentSpec("n", <<"a">>, <<"p">>, <<>>, <<"t">>)
\* the tag of agent t only
SpecTagsOnly == AgentSpec("g", <<"G">>, <<"q">>, <<"t">>, <<>>)
\* a name that is a regular expression
SpecDot == AgentSpec("d", <<".">>, <<"p">>, <<>>, <<>>)

ResponsesMatch ==
  {Final([k |-> "res", v |-> "r1"]), Plan(<<SpecA1, SpecT1>>, <<>>),
   Plan(<<SpecSlugNameTags, SpecNameTags, SpecTagsOnly>>, <<>>),
   Plan(<<SpecDot>>, <<"a">>)}

CfgMatch ==
  Cfg(1, MaxRunsMatch, MaxRunsMatch, 0, DefaultMaxDepth, DefaultMaxChildren,
      ResponsesMatch, {BOOTSTRAP_AGENT_SLUG}, {NoContext}, "none")

NextMatch ==
  \E t \in Tasks(CfgMatch) :
    \/ SessionCreate(t)
    \/ handleRunStart(t, CfgMatch)
    \/ handleRunStartEnd(t)
    \/ ExecCore(t, CfgMatch)
    \/ ExecAgents(t, CfgMatch)
    \/ ExecChildren(t, CfgMatch)

SpecMatch == Init /\ [][NextMatch]_vars

\* the agents a spec hits: by its slug, by its name (exact, upper and lower
\* case alike), by one of its effective tags
SlugHits(spec) == {a \in AgentIds : agents[a].slug = spec.slug}
NameHits(spec) == {a \in AgentIds : Lower(agents[a].name) = Lower(spec.name)}
TagHits(spec) ==
  IF SpecTags(spec) = <<>> THEN {}
  ELSE {a \in AgentIds : Range(agents[a].tags) \cap Range(SpecTags(spec)) # {}}

\* what the ordered search has to answer for a spec
FirstHit(spec) ==
  IF SlugHits(spec) # {} THEN [on |-> "slug", among |-> SlugHits(spec)]
  ELSE IF NameHits(spec) # {} THEN [on |-> "name", among |-> NameHits(spec)]
  ELSE IF TagHits(spec) # {} THEN [on |-> "tags", among |-> TagHits(spec)]
  ELSE [on |-> "new", among |-> {}]

\* what the step of task t that resolves a spec has answered
AnsweredBy(t, slug) ==
  IF Top(t).pc' = "spawnAgent" THEN [on |-> "new", agent |-> 0]
  ELSE IF Top(t).pc' = "spawnVersion"
  THEN [on |-> Top(t).matchedOn', agent |-> Top(t).sim']
  ELSE [on |-> NewResolution(t, slug).matchedOn, agent |-> NewResolution(t, slug).agentId]

\* C29: agent resolution searches existing agents in the fixed order slug,
\* name, tags and the first hit wins: an exact slug match wins over any name
\* or tag match, a name match (case-insensitive, exact) wins over a tag
\* match, and a tag match is attempted only when the spec's effective tags
\* are non-empty; with no hit a new agent with version 1 is created.
C29_FirstHitInSearchOrder ==
  [][\A t \in DOMAIN tasks :
       LET f == Top(t)
           spec == f.atc[f.si]
       IN  /\ (At(t, "spawn") /\ ~InvalidSpec(spec) /\ tasks'[t] # tasks[t])
                => /\ AnsweredBy(t, spec.slug).on = FirstHit(spec).on
                   /\ FirstHit(spec).on # "new"
                        => AnsweredBy(t, spec.slug).agent \in FirstHit(spec).among
           /\ (At(t, "spawnAgent") /\ tasks'[t] # tasks[t])
                => /\ Len(agents') = Len(agents) + 1
                   /\ agents'[Len(agents')].slug = spec.slug
                   /\ Top(t).pc' = "spawnAgentVersion"
           /\ (At(t, "spawnAgentVersion") /\ tasks'[t] # tasks[t])
                => /\ f.newVersion \in DOMAIN agentVersions' \ DOMAIN agentVersions
                   /\ agentVersions'[f.newVersion].version = 1
                   /\ agentVersions'[f.newVersion].agentId = f.newAgent
                   /\ agents[f.newAgent].slug = spec.slug
                   /\ NewResolution(t, spec.slug).matchedOn = "new"
                   /\ NewResolution(t, spec.slug).createdNewAgent]_vars

\* a spec named "." was resolved to an agent of another slug whose name is
\* not "."
C29_PatternNameMatched ==
  \E t \in DOMAIN tasks :
    /\ tasks[t].stack # <<>>
    /\ \E i \in DOMAIN Top(t).res :
         /\ Top(t).res[i].requestedSlug = SpecDot.slug
         /\ Top(t).res[i].matchedOn = "name"
         /\ agents[Top(t).res[i].agentId].name # SpecDot.name

\* the same order for names of letters only
LetterName(name) == \A i \in DOMAIN name : name[i] # "."

SearchOrderForLetterNames ==
  [][\A t \in DOMAIN tasks :
       LET spec == Top(t).atc[Top(t).si]
       IN  (/\ At(t, "spawn") /\ ~InvalidSpec(spec) /\ LetterName(spec.name)
            /\ tasks'[t] # tasks[t])
             => /\ AnsweredBy(t, spec.slug).on = FirstHit(spec).on
                /\ FirstHit(spec).on # "new"
                     => AnsweredBy(t, spec.slug).agent \in FirstHit(spec).among]_vars

\* a spec was resolved by name although one of its tags hits another agent,
\* and a spec was resolved by slug although its name hits another agent
SearchOrderDecided ==
  \E t \in DOMAIN tasks :
    /\ tasks[t].stack # <<>>
    /\ \E i, j \in DOMAIN Top(t).res :
         /\ Top(t).res[i].requestedSlug = SpecNameTags.slug
         /\ Top(t).res[i].matchedOn = "name"
         /\ TagHits(SpecNameTags) \ {Top(t).res[i].agentId} # {}
         /\ Top(t).res[j].requestedSlug = SpecSlugNameTags.slug
         /\ Top(t).res[j].matchedOn = "slug"
         /\ NameHits(SpecSlugNameTags) \ {Top(t).res[j].agentId} # {}

-----------------------------------------------------------------------------
(* SpecRole: one client at a time; a plan of the bootstrap agent creates    *)
(* the specialist s and the router r, runs are started on the bootstrap    *)
(* agent or on s, and a plan names the router, an unknown slug or both.    *)

MaxRunsRole == 4
MaxRpcRole == 3

SpecR1 == AgentSpec("r", <<"R">>, <<"p">>, <<"router">>, <<>>)

ResponsesRole ==
  {Final([k |-> "res", v |-> "r1"]), Plan(<<SpecS1, SpecS2, SpecR1>>, <<>>),
   Plan(<<>>, <<"r">>), Plan(<<>>, <<"x">>), Plan(<<>>, <<"r", "x">>)}

CfgRole ==
  Cfg(1, MaxRunsRole, MaxRpcRole, 0, DefaultMaxDepth, DefaultMaxChildren,
      ResponsesRole, {BOOTSTRAP_AGENT_SLUG, "s"}, {NoContext}, "none")

NextRole ==
  \E t \in Tasks(CfgRole) :
    \/ SessionCreate(t)
    \/ handleRunStart(t, CfgRole)
    \/ handleRunStartEnd(t)
    \/ ExecCore(t, CfgRole)
    \/ ExecAgents(t, CfgRole)
    \/ ExecChildren(t, CfgRole)

SpecRole == Init /\ [][NextRole]_vars

-----------------------------------------------------------------------------
(* The role discipline of a specialist (SpecRole).                         *)

\* the agent of run r has the computed role specialist
SpecialistRun(r) == SummaryRole(agents[runs[r].agentId]) = "specialist"

\* slug is the slug of a known agent with role router
KnownRouter(slug) ==
  \E a \in AgentIds : agents[a].slug = slug /\ SummaryRole(agents[a]) = "router"

\* a plan the role discipline forbids to a specialist
Forbidden(atc, rte) ==
  \/ atc # <<>>
  \/ Len(rte) > 1
  \/ \E i \in DOMAIN rte : ~KnownRouter(rte[i])

SpecialistMessages ==
  {<<"Specialist agents cannot create new agents", "">>,
   <<"Specialist agents may delegate to at most one router", "">>,
   <<"Specialist agents may only delegate to routers", "">>}

\* no specialist run has created an agent, each has at most one child run,
\* the child executes a router, and the run of a forbidden plan has failed
SpecialistKept ==
  \A r \in RunIds :
    SpecialistRun(r) =>
      /\ \A a \in AgentIds : agents[a].origin # r
      /\ Cardinality(ChildrenOf(r)) <= 1
      /\ \A ch \in ChildrenOf(r) : SummaryRole(agents[runs[ch].agentId]) = "router"
      /\ (/\ r \in Answered
          /\ hist.seen[r].type = "plan"
          /\ Forbidden(hist.seen[r].atc, hist.seen[r].rte))
           => /\ runs[r].status = "failed"
              /\ runs[r].error.message \in SpecialistMessages
              /\ ChildrenOf(r) = {}

\* C30: when the running agent's computed role is specialist, a plan fails
\* the run if agentsToCreate is non-empty, if runsToExecute has more than one
\* entry, or if any runsToExecute slug is not the slug of a known agent with
\* role router; so a specialist run never creates an agent and has at most
\* one child run, which executes a router.
C30_SpecialistRoleDiscipline ==
  [][/\ \A t \in DOMAIN tasks :
          LET f == Top(t)
          IN  (/\ At(t, "validate")
               /\ SpecialistRun(f.run)
               /\ Forbidden(f.atc, f.rte)
               /\ tasks'[t] # tasks[t])
                => /\ Top(t).pc' = "catch"
                   /\ Top(t).msg' \in SpecialistMessages
                   /\ UNCHANGED <<agents, agentVersions, runs>>
     /\ SpecialistKept']_vars

\* a run of the specialist s failed on a plan that names the router and an
\* unknown slug, and another run of s has one child run, on the router r
C30_SpecialistFailedAndDelegated ==
  /\ \E r \in Answered :
       /\ SpecialistRun(r)
       /\ hist.seen[r].rte = <<"r", "x">>
       /\ runs[r].status = "failed"
       /\ runs[r].error.message = <<"Specialist agents may delegate to at most one router", "">>
  /\ \E r \in RunIds :
       /\ SpecialistRun(r)
       /\ \E ch \in ChildrenOf(r) :
            ChildrenOf(r) = {ch} /\ agents[runs[ch].agentId].slug = "r"

-----------------------------------------------------------------------------
(* The order of the runs of one tree (SpecFault).                          *)

\* the tree of root was created by a single run.start: every other run of it
\* is the child of a plan
SingleStart(root) ==
  /\ runs[root].parentRunId = 0
  /\ \A r \in RunsOfRoot(root) \ {root} : ~runs[r].byRpc

RunningOf(root) == {r \in RunsOfRoot(root) : runs[r].status = "running"}

\* the running runs of the tree are a chain that starts at the root
RunningChain(root) ==
  LET R == RunningOf(root)
  IN  \/ R = {}
      \/ /\ root \in R
         /\ \A r \in R \ {root} : runs[r].parentRunId \in R
         /\ \A r, s \in R \ {root} : runs[r].parentRunId = runs[s].parentRunId => r = s

\* the children a plan created in this step find their earlier siblings and
\* the descendants of those terminal
SiblingsOneAfterAnother ==
  \A ch \in DOMAIN runs' \ DOMAIN runs :
    (~runs'[ch].byRpc /\ SingleStart(runs'[ch].rootRunId))
      => \A s \in ChildrenOf(runs'[ch].parentRunId) :
           \A d \in TreeBelow(s) : Terminal(runs[d].status)

\* C31: within one root run tree created by a single run.start, children
\* execute sequentially and depth-first: a sibling's run document is created
\* only after the previous sibling's run (and all of that sibling's
\* descendants) is terminal, so at every moment the runs of the tree with
\* status running form a single chain from the root to the currently
\* executing run.
C31_RunningRunsFormOneChain ==
  [][/\ SiblingsOneAfterAnother
     /\ \A root \in DOMAIN runs' : SingleStart(root)' => RunningChain(root)']_vars

\* a plan has created its second child, after the first became terminal
SecondSiblingCreated ==
  \E p \in RunIds : \E s1, s2 \in ChildrenOf(p) :
    /\ SingleStart(runs[p].rootRunId)
    /\ s1 < s2
    /\ Terminal(runs[s1].status)
    /\ runs[s2].status = "running" /\ runs[p].status = "running"

\* a run is left running below a terminal root
C31_RunningBelowTerminalRoot ==
  \E root \in RunIds :
    /\ SingleStart(root)
    /\ Terminal(runs[root].status)
    /\ RunningOf(root) # {}

-----------------------------------------------------------------------------
(* SpecLive: one run.start on the bootstrap agent; the model answers every  *)
(* request with a plan of three children, whose slugs resolve to the       *)
(* bootstrap agent;                                                        *)
(* the store accepts every operation and every enabled step is taken in    *)
(* the end.  MaxRunsLive is above what the depth limit and the spawn cap   *)
(* let a tree reach, so that only the checks of the code stop a plan.      *)

MaxRunsLive == 16
MaxRpcLive == 1

ResponsesLive ==
  {Plan(<<>>, <<"x", "y", "z">>), Plan(<<>>, <<"u", "v", "w">>)}

CfgLive ==
  Cfg(1, MaxRunsLive, MaxRpcLive, 0, DefaultMaxDepth, DefaultMaxChildren,
      ResponsesLive, {BOOTSTRAP_AGENT_SLUG}, {NoContext}, "none")

NextLive ==
  \E t \in Tasks(CfgLive) :
    \/ SessionCreate(t)
    \/ handleRunStart(t, CfgLive)
    \/ handleRunStartEnd(t)
    \/ ExecStart(t, CfgLive)
    \/ ExecPrompt(t, CfgLive)
    \/ ExecRequest(t, CfgLive)
    \/ ExecModel(t, CfgLive)
    \/ ExecValidate(t, CfgLive)
    \/ ExecChildren(t, CfgLive)
    \/ ExecFinish(t, CfgLive)
    \/ ExecCatch(t)
    \/ ExecCatchError(t, CfgLive)
    \/ ExecCatchFinish(t, CfgLive)

SpecLive == Init /\ [][NextLive]_vars /\ WF_vars(NextLive)

-----------------------------------------------------------------------------
(* Termination of executeRun (SpecLive).                                   *)

\* an executeRun call for run r is in progress
Executing(r) ==
  \E t \in DOMAIN tasks : \E i \in DOMAIN tasks[t].stack : tasks[t].stack[i].run = r

\* the calls in progress are nested no deeper than the depth limit allows and
\* a root has at most SpawnLimit descendants
TreeBounded ==
  /\ \A t \in DOMAIN tasks : Len(tasks[t].stack) <= DefaultMaxDepth + 1
  /\ \A root \in RunIds : Cardinality(RunsOfRoot(root)) <= SpawnLimit + 1

\* C32: every executeRun call eventually returns, provided each model call
\* and store operation returns: the recursion is finite because every run
\* tree is bounded by the depth limit and the spawn cap, for every sequence
\* of model responses (including a model that answers every request with a
\* plan).
C32_ExecuteRunReturns ==
  /\ <>[](\A r \in RunIds : r \in hist.returned /\ ~Executing(r))
  /\ []TreeBounded

\* the model answered every request of a tree with a plan, plans were
\* rejected by the depth limit and the last one by the spawn cap, and every
\* call has returned
C32_AllPlansReturned ==
  /\ Cardinality(RunIds) = SpawnLimit
  /\ \A r \in RunIds :
       /\ r \in Answered
       /\ hist.seen[r].type = "plan"
       /\ ~Executing(r)
       /\ Terminal(runs[r].status)
  /\ \E r \in RunIds : runs[r].error.message = <<"Spawn cap exceeded", "">>
  /\ \E r \in RunIds : runs[r].error.message = <<"Routing depth exceeded", "">>

-----------------------------------------------------------------------------
(* The writers of a run's events (SpecConc).                               *)

\* the executeRun calls for run r: a task and a position of its stack
CallsOf(r) ==
  {c \in (DOMAIN tasks) \X (1 .. Len(runs)) :
     c[2] \in DOMAIN tasks[c[1]].stack /\ tasks[c[1]].stack[c[2]].run = r}

\* the calls that can be inside an emit: those not waiting for a child
Emitting(r) == {c \in CallsOf(r) : tasks[c[1]].stack[c[2]].pc # "childWait"}

\* no two events of a log carry the same seq
SeqsDistinct(log) == \A i, j \in DOMAIN log : log[i].seq = log[j].seq => i = j

\* the step appends one event to the log of r, made by the one call for r,
\* which is the innermost call of its task
WrittenByItsCall(r) ==
  /\ Len(events'[r]) = Len(events[r]) + 1
  /\ SubSeq(events'[r], 1, Len(events[r])) = events[r]
  /\ \E t \in DOMAIN tasks :
       /\ tasks[t].stack # <<>>
       /\ Top(t).run = r
       /\ CallsOf(r) = {<<t, Len(tasks[t].stack)>>}
       /\ tasks'[t] # tasks[t]

\* C33: under any interleaving of concurrently executing root runs, at most
\* one emit operation for a given runId is in progress at any time (a run's
\* events are written only by the single executeRun call of that run), so
\* the read-max-then-insert seq allocation never produces a duplicate
\* (runId, seq) and never hits the unique index.
C33_OneWriterPerRun ==
  [][/\ \A r \in DOMAIN events : events'[r] # events[r] => WrittenByItsCall(r)
     /\ \A r \in DOMAIN events' :
          /\ Cardinality(Emitting(r)') <= 1
          /\ SeqsDistinct(events'[r])]_vars

\* two root runs execute at the same time and both have written events
C33_TwoRootsWriting ==
  \E t1, t2 \in DOMAIN tasks :
    /\ t1 # t2
    /\ tasks[t1].stack # <<>> /\ tasks[t2].stack # <<>>
    /\ Top(t1).run # Top(t2).run
    /\ Len(events[Top(t1).run]) >= 2 /\ Len(events[Top(t2).run]) >= 2
    /\ runs[Top(t1).run].status = "running" /\ runs[Top(t2).run].status = "running"

-----------------------------------------------------------------------------
(* SpecVisit: one run.start on the bootstrap agent; plans that create the   *)
(* agent a and name a and x, and plans of the children that name a sibling, *)
(* the parent or the child itself.                                         *)

MaxRunsVisit == 4
MaxRpcVisit == 1

ResponsesVisit ==
  {Final([k |-> "res", v |-> "r1"]), Plan(<<SpecA1, SpecA2>>, <<"a", "x">>),
   Plan(<<>>, <<"x">>), Plan(<<>>, <<"a">>), Plan(<<>>, <<BOOTSTRAP_AGENT_SLUG>>)}

CfgVisit ==
  Cfg(1, MaxRunsVisit, MaxRpcVisit, 0, DefaultMaxDepth, DefaultMaxChildren,
      ResponsesVisit, {BOOTSTRAP_AGENT_SLUG}, {NoContext}, "none")

NextVisit ==
  \E t \in Tasks(CfgVisit) :
    \/ SessionCreate(t)
    \/ handleRunStart(t, CfgVisit)
    \/ handleRunStartEnd(t)
    \/ ExecCore(t, CfgVisit)
    \/ ExecAgents(t, CfgVisit)
    \/ ExecChildren(t, CfgVisit)

SpecVisit == Init /\ [][NextVisit]_vars

-----------------------------------------------------------------------------
(* The visitedSlugs of a child (SpecVisit).                                *)

\* the visitedSlugs of run r while it executes: those of its context and the
\* slug of its agent
VisitedOf(r) == Range(normalizeStringArray(runs[r].context.visitedSlugs)) \cup {SlugOfRun(r)}

\* the parents of r up to the run that run.start created
RECURSIVE PlanAncestors(_)
PlanAncestors(r) ==
  IF runs[r].byRpc \/ runs[r].parentRunId = 0 THEN {}
  ELSE {runs[r].parentRunId} \cup PlanAncestors(runs[r].parentRunId)

\* the slugs a plan of child r must not name: the agents of its ancestors and
\* its own, and the entries of its parent's runsToExecute
Forbidden34(r) ==
  {SlugOfRun(a) : a \in PlanAncestors(r) \cup {r}}
    \cup Range(hist.seen[runs[r].parentRunId].rte)

\* C34: the visitedSlugs passed to each child run equals the parent's
\* visitedSlugs (including the parent's own slug) united with the slugs of
\* all entries of the parent's runsToExecute (earlier and later siblings) and
\* the child's own slug; hence a plan returned by a child that names its
\* parent, any ancestor, any sibling or itself in runsToExecute is rejected.
C34_ChildVisitedSlugs ==
  [][/\ \A t \in DOMAIN tasks : \A ch \in DOMAIN runs' \ DOMAIN runs :
          (At(t, "child") /\ ~runs'[ch].byRpc)
            => /\ runs'[ch].parentRunId = Top(t).run
               /\ Range(runs'[ch].context.visitedSlugs)
                    = VisitedOf(Top(t).run) \cup Range(Top(t).rte)
                        \cup {Top(t).rte[Top(t).ci]}
     /\ \A t \in DOMAIN tasks :
          LET f == Top(t)
          IN  (/\ At(t, "validate")
               /\ ~runs[f.run].byRpc
               /\ Range(f.rte) \cap Forbidden34(f.run) # {}
               /\ tasks'[t] # tasks[t])
                => /\ Top(t).pc' = "catch"
                   /\ UNCHANGED <<agents, agentVersions, runs>>]_vars

\* the child a has failed on a plan that names its later sibling x, and the
\* child x, which the bootstrap agent executes, on a plan that names the
\* bootstrap agent: its parent and itself
C34_SiblingAndParentRejected ==
  \E r1, r2 \in RunIds :
    /\ r1 \in Answered /\ r2 \in Answered
    /\ runs[r1].parentRunId = runs[r2].parentRunId /\ runs[r1].parentRunId # 0
    /\ SlugOfRun(r1) = "a" /\ hist.seen[r1].rte = <<"x">>
    /\ runs[r1].status = "failed"
    /\ runs[r1].error.message = <<"Slug already executed in this run tree", "x">>
    /\ SlugOfRun(r2) = BOOTSTRAP_AGENT_SLUG
    /\ hist.seen[r2].rte = <<BOOTSTRAP_AGENT_SLUG>>
    /\ runs[r2].status = "failed"
    /\ runs[r2].error.message = <<"Slug already executed in this run tree", BOOTSTRAP_AGENT_SLUG>>

-----------------------------------------------------------------------------
(* SpecLegacy: one client at a time; the model answers with one plan under  *)
(* the keys agentsToCreate/runsToExecute, the same plan under the keys      *)
(* agents/runs, and an answer that has all four keys.                      *)

MaxRunsLegacy == 4
MaxRpcLegacy == 2

ResponsesLegacy ==
  {Final([k |-> "res", v |-> "r1"]), Plan(<<SpecA1, SpecA2>>, <<"a">>),
   LegacyPlan(<<SpecA1, SpecA2>>, <<"a">>), BothPlan(<<>>, <<"x">>, <<SpecA1>>, <<"a">>)}

CfgLegacy ==
  Cfg(1, MaxRunsLegacy, MaxRpcLegacy, 0, DefaultMaxDepth, DefaultMaxChildren,
      ResponsesLegacy, {BOOTSTRAP_AGENT_SLUG}, {NoContext}, "none")

NextLegacy ==
  \E t \in Tasks(CfgLegacy) :
    \/ SessionCreate(t)
    \/ handleRunStart(t, CfgLegacy)
    \/ handleRunStartEnd(t)
    \/ ExecCore(t, CfgLegacy)
    \/ ExecAgents(t, CfgLegacy)
    \/ ExecChildren(t, CfgLegacy)

SpecLegacy == Init /\ [][NextLegacy]_vars

-----------------------------------------------------------------------------
(* Legacy keys of a plan (SpecLegacy).                                     *)

\* the same plan under the keys agentsToCreate/runsToExecute
Canonical(parsed) ==
  IF "canonical" \in parsed.keys THEN Plan(parsed.agentsToCreate, parsed.runsToExecute)
  ELSE Plan(parsed.agents, parsed.runs)

\* C35: a plan that uses the legacy keys agents/runs is processed exactly
\* like the same plan using agentsToCreate/runsToExecute: the same validation
\* outcome, the same agents and versions created, the same child runs and
\* the same merged output; when both a canonical key and its legacy alias
\* are present, the canonical key is used.  Validation, resolution, the
\* child loop and the merge read the plan the executor holds after the
\* answer is parsed, and a child run receives the plan of its parent: both
\* are those of the plan under the canonical keys.
C35_LegacyKeysSameAsCanonical ==
  [][\A t \in DOMAIN tasks :
       /\ (At(t, "model") /\ tasks'[t] # tasks[t] /\ Top(t).type' = "plan")
            => /\ Top(t).atc' = Canonical(Top(t).parsed').agentsToCreate
               /\ Top(t).rte' = Canonical(Top(t).parsed').runsToExecute
       /\ \A ch \in DOMAIN runs' \ DOMAIN runs :
            At(t, "child") => runs'[ch].context.parentPlan = Canonical(Top(t).parsed)]_vars

\* a child run of a plan under the legacy keys has ended: the parentPlan of
\* its context has the key runs and no key runsToExecute
C35_ChildOfLegacyPlan ==
  \E r \in RunIds :
    /\ ~runs[r].byRpc
    /\ runs[r].context.parentPlan.keys = {"legacy"}
    /\ runs[r].context.parentPlan.runs = <<"a">>
    /\ SlugOfRun(r) = "a"
    /\ Terminal(runs[r].status)

\* the plan the executor holds is the one under the canonical keys
NormalizedAsCanonical ==
  [][\A t \in DOMAIN tasks :
       (At(t, "model") /\ tasks'[t] # tasks[t] /\ Top(t).type' = "plan")
         => /\ Top(t).atc' = Canonical(Top(t).parsed').agentsToCreate
            /\ Top(t).rte' = Canonical(Top(t).parsed').runsToExecute]_vars

-----------------------------------------------------------------------------
(* The metadata of a resolved agent (SpecMatch).                           *)

\* the step of task t records the resolution of the spec it is at
Resolves(t) ==
  /\ tasks[t].stack # <<>>
  /\ Top(t).pc \in {"spawn", "spawnVersion", "spawnAgentVersion"}
  /\ tasks'[t] # tasks[t]
  /\ tasks'[t].stack # <<>>
  /\ Top(t).si' = Top(t).si + 1

\* C36: after a plan's agentsToCreate has been resolved, every agent named
\* in a resolution (newly created, updated with a new version, or reused)
\* carries metadata.origin = {parentRunId, rootRunId, createdByAgentId,
\* userMessage} and a metadata.card whose skills[0].tags equal the spec's
\* effective tags.
C36_ResolvedAgentHasOriginAndCard ==
  [][\A t \in DOMAIN tasks :
       Resolves(t) =>
         LET spec == Top(t).atc[Top(t).si]
             a == NewResolution(t, spec.slug).agentId
         IN  /\ agents'[a].origin # 0
             /\ agents'[a].hasCard
             /\ agents'[a].cardTags = SpecTags(spec)]_vars

\* the plan [SpecA1, SpecT1] has reused the agent a for SpecA1, which has no
\* tags, and the card of a still has the tag of the spec that created it
C36_ReusedWithCardOfOtherSpec ==
  \E t \in DOMAIN tasks :
    /\ tasks[t].stack # <<>>
    /\ Top(t).atc = <<SpecA1, SpecT1>>
    /\ Top(t).si > 1
    /\ \E i \in DOMAIN Top(t).res :
         /\ Top(t).res[i].requestedSlug = SpecA1.slug
         /\ Top(t).res[i].reused
         /\ agents[Top(t).res[i].agentId].cardTags = <<"t">>
         /\ SpecTags(SpecA1) = <<>>

\* an agent that a plan has created carries origin and the card of its spec
C36_NewAgentHasOriginAndCard ==
  [][\A t \in DOMAIN tasks :
       (Resolves(t) /\ Top(t).pc = "spawnAgentVersion") =>
         LET spec == Top(t).atc[Top(t).si]
             a == NewResolution(t, spec.slug).agentId
         IN  /\ agents'[a].origin = Top(t).run
             /\ agents'[a].hasCard
             /\ agents'[a].cardTags = SpecTags(spec)]_vars

-----------------------------------------------------------------------------
(* The stored status and the end of the log (Spec).                        *)

\* the event of the highest seq of the log of run r is RUN_FINISHED
LogComplete(r) ==
  /\ events[r] # <<>>
  /\ \E i \in DOMAIN events[r] :
       /\ events[r][i].seq = highestSeq(r)
       /\ events[r][i].type = "RUN_FINISHED"

\* C37: in every reachable state, the states between two store operations of
\* executeRun included, a run whose stored status is succeeded or failed has
\* RUN_FINISHED as the last event of its log.
C37_TerminalStatusHasRunFinished ==
  \A r \in RunIds : Terminal(runs[r].status) => LogComplete(r)

\* the final branch has written the status succeeded and executeRun is at
\* the emit of RUN_FINISHED, which the log does not have yet
C37_SucceededBeforeRunFinished ==
  \E t \in DOMAIN tasks :
    /\ At(t, "finish")
    /\ runs[Top(t).run].status = "succeeded"
    /\ ~LogComplete(Top(t).run)

\* once executeRun has returned, the log of a terminal run is complete
C37_ReturnedRunHasRunFinished ==
  \A r \in RunIds : (Terminal(runs[r].status) /\ r \in hist.returned) => LogComplete(r)

-----------------------------------------------------------------------------
(* SpecPoll: one client starts runs on the bootstrap agent while a second  *)
(* client polls the events of run 1 the way the Playground's polling       *)
(* effect does: run.events with its nextSeq as sinceSeq, then run.get.     *)

MaxRunsPoll == 2

CfgPoll ==
  Cfg(1, MaxRunsPoll, 1, 0, DefaultMaxDepth, DefaultMaxChildren,
      ResponsesFault, {BOOTSTRAP_AGENT_SLUG}, {NoContext}, "none")

\* the state of the polling effect: runId, nextSeq (useState(0)) and events
\* (useState([])); got tells that the tick received events, late that the
\* first request was sent after executeRun had returned
Poller ==
  [kind |-> "poller", stack |-> <<>>, runId |-> 1, pc |-> "events",
   nextSeq |-> 0, events |-> <<>>, got |-> FALSE, late |-> FALSE]

\* the result of run.events {runId, sinceSeq}
RunEventsResult(runId, sinceSeq) ==
  LET found == {d \in EventDocs : d.runId = runId /\ SeqAfter(d.ev.seq, sinceSeq)}
      evs == SortBySeq(found)
      lastSeq == IF Len(evs) > 0 THEN evs[Len(evs)].seq ELSE sinceSeq
  IN  [events |-> evs, nextSeq |-> lastSeq + 1]

\* a tick of the interval: Api.getRunEvents(runId, nextSeq); when events
\* came, setEvents([...prev, ...ev.events]) and setNextSeq(ev.nextSeq)
PollEvents(t) ==
  /\ tasks[t].kind = "poller"
  /\ tasks[t].pc = "events"
  /\ tasks[t].runId \in RunIds
  /\ LET p == tasks[t]
         ev == RunEventsResult(p.runId, p.nextSeq)
         first == p.nextSeq = 0 /\ p.events = <<>>
         late == IF first THEN p.runId \in hist.returned ELSE p.late
     IN  tasks' = [tasks EXCEPT ![t] =
           IF Len(ev.events) > 0
           THEN [p EXCEPT !.pc = "run", !.events = p.events \o ev.events,
                          !.nextSeq = ev.nextSeq, !.got = TRUE, !.late = late]
           ELSE [p EXCEPT !.pc = "run", !.got = FALSE, !.late = late]]
  /\ UNCHANGED <<agents, agentVersions, sessions, runs, events, faults, hist>>

\* the rest of the tick: Api.getRun(runId) and clearInterval when the status
\* is not running; after a setNextSeq the effect has been set up again and
\* the interval that is cleared is the one its cleanup cleared already
PollRun(t) ==
  /\ tasks[t].kind = "poller"
  /\ tasks[t].pc = "run"
  /\ LET p == tasks[t]
         status == runs[p.runId].status
     IN  tasks' = [tasks EXCEPT ![t] =
           [p EXCEPT !.pc = IF status # "running" /\ ~p.got THEN "stopped" ELSE "events",
                     !.got = FALSE]]
  /\ UNCHANGED <<agents, agentVersions, sessions, runs, events, faults, hist>>

InitPoll ==
  /\ InitStore
  /\ tasks = <<IdleTask, Poller>>

NextPoll ==
  \/ \E t \in Tasks(CfgPoll) :
       \/ SessionCreate(t)
       \/ handleRunStart(t, CfgPoll)
       \/ handleRunStartEnd(t)
       \/ ExecCore(t, CfgPoll)
       \/ ExecChildren(t, CfgPoll)
  \/ PollEvents(2)
  \/ PollRun(2)

SpecPoll == InitPoll /\ [][NextPoll]_vars

-----------------------------------------------------------------------------
(* What the polling client has received (SpecPoll).                        *)

\* the events of run runId by seq
LogBySeq(runId) == SortBySeq({d \in EventDocs : d.runId = runId})

Pollers == {t \in DOMAIN tasks : tasks[t].kind = "poller"}

\* C38: a client that polls run.events starting with sinceSeq = 0 and passes
\* each returned nextSeq as the next sinceSeq, as the Playground does,
\* receives every event of the run exactly once, in seq order, for any
\* interleaving of polls with event emissions: what it has received is at
\* all times the beginning of the log by seq.
C38_PollerReceivesEachEventOnce ==
  \A t \in Pollers :
    LET p == tasks[t]
    IN  /\ Len(p.events) <= Len(LogBySeq(p.runId))
        /\ p.events = SubSeq(LogBySeq(p.runId), 1, Len(p.events))

\* the client has received the event after an event that is in the log and
\* that it has not received
C38_EventSkipped ==
  \E t \in Pollers :
    \E i \in DOMAIN tasks[t].events :
      /\ i > 1
      /\ tasks[t].events[i].seq = tasks[t].events[i - 1].seq + 2
      /\ \E e \in Range(LogOf(tasks[t].runId)) : e.seq = tasks[t].events[i - 1].seq + 1

\* a client whose first request is sent after executeRun has returned, as
\* the Playground's is (run.start answers after executeRun), has the whole log
C38_LatePollerHasWholeLog ==
  \A t \in Pollers :
    (tasks[t].late /\ tasks[t].events # <<>>) => tasks[t].events = LogBySeq(tasks[t].runId)

-----------------------------------------------------------------------------
(* CHILD_RUN_STARTED and CHILD_RUN_FINISHED in the log of a parent         *)
(* (SpecFault).                                                            *)

\* the positions of the events of a type in the log of run r
PositionsOfType(r, type) == {i \in DOMAIN events[r] : events[r][i].type = type}

\* every CHILD_RUN_STARTED of the log of p is immediately followed by the
\* CHILD_RUN_FINISHED of the same child
StartedThenFinished(p) ==
  \A i \in PositionsOfType(p, "CHILD_RUN_STARTED") :
    /\ i < Len(events[p])
    /\ events[p][i + 1].type = "CHILD_RUN_FINISHED"
    /\ events[p][i + 1].ref = events[p][i].ref
    /\ events[p][i + 1].seq = events[p][i].seq + 1

\* the child of a CHILD_RUN_FINISHED has its own RUN_FINISHED, and the status
\* of the payload is the stored status of the child
FinishedAsStored(p) ==
  \A i \in PositionsOfType(p, "CHILD_RUN_FINISHED") :
    LET child == events[p][i].ref
    IN  /\ PositionsOfType(child, "RUN_FINISHED") # {}
        /\ events[p][i].status = runs[child].status

\* as many pairs as runs whose parentRunId is p and as executedAgents
PairsAsChildren(p) ==
  LET pairs == Cardinality(PositionsOfType(p, "CHILD_RUN_STARTED"))
  IN  /\ pairs = Cardinality({r \in RunIds : runs[r].parentRunId = p})
      /\ (runs[p].output.set /\ runs[p].output.result.k = "merged") =>
           pairs = Len(runs[p].output.result.executedAgents)

\* C39: in the log of a parent whose executeRun has returned, every
\* CHILD_RUN_STARTED{childRunId} is immediately followed by
\* CHILD_RUN_FINISHED for the same childRunId; the child's own RUN_FINISHED
\* is inserted before that CHILD_RUN_FINISHED and the status of its payload
\* equals the child's stored status; the number of such pairs equals the
\* number of runs whose parentRunId is the parent and the length of
\* planSummary.executedAgents.
C39_ChildEventsPaired ==
  /\ \A p \in hist.returned : StartedThenFinished(p) /\ PairsAsChildren(p)
  /\ \A p \in RunIds : FinishedAsStored(p)

\* a parent has returned with CHILD_RUN_FINISHED {failed} in its log for a
\* child whose stored status is succeeded
C39_FinishedFailedForSucceededChild ==
  \E p \in hist.returned :
    \E i \in PositionsOfType(p, "CHILD_RUN_FINISHED") :
      /\ events[p][i].status = "failed"
      /\ runs[events[p][i].ref].status = "succeeded"

\* the pairs of a returned parent, without the two counts
C39_PairedAndAsStored ==
  /\ \A p \in hist.returned : StartedThenFinished(p)
  /\ \A p \in RunIds : FinishedAsStored(p)

\* the counts, for the runs that the child loop of the parent created
C39_PairsAsLoopChildren ==
  \A p \in hist.returned :
    LET pairs == Cardinality(PositionsOfType(p, "CHILD_RUN_STARTED"))
    IN  /\ pairs = Cardinality({r \in RunIds : runs[r].parentRunId = p /\ ~runs[r].byRpc})
        /\ (runs[p].output.set /\ runs[p].output.result.k = "merged") =>
             pairs = Len(runs[p].output.result.executedAgents)

-----------------------------------------------------------------------------
(* SpecSystem: one client at a time starts runs on the bootstrap agent;    *)
(* the plans name specs with the slug or a tag of the bootstrap agent.     *)

MaxRunsSystem == 3

\* the slug of the bootstrap agent, another prompt
SpecSystemSlug == AgentSpec(BOOTSTRAP_AGENT_SLUG, <<"X">>, <<"u">>, <<>>, <<>>)
\* a tag of the bootstrap agent, the prompt of its active version
SpecSystemTag == AgentSpec("k", <<"K">>, BOOTSTRAP_PROMPT, <<"system">>, <<>>)

ResponsesSystem ==
  {Final([k |-> "res", v |-> "r1"]), BadResponse,
   Plan(<<SpecSystemSlug, SpecA1>>, <<"a">>), Plan(<<SpecSystemTag>>, <<>>)}

CfgSystem ==
  Cfg(1, MaxRunsSystem, MaxRunsSystem, 0, DefaultMaxDepth, DefaultMaxChildren,
      ResponsesSystem, {BOOTSTRAP_AGENT_SLUG}, {NoContext}, "none")

NextSystem ==
  \E t \in Tasks(CfgSystem) :
    \/ SessionCreate(t)
    \/ handleRunStart(t, CfgSystem)
    \/ handleRunStartEnd(t)
    \/ ExecCore(t, CfgSystem)
    \/ ExecAgents(t, CfgSystem)
    \/ ExecChildren(t, CfgSystem)

SpecSystem == Init /\ [][NextSystem]_vars

-----------------------------------------------------------------------------
(* The system agents and the resolution of a plan (SpecSystem).            *)

\* metadata.system of the agent document
SystemAgents == {a \in AgentIds : agents[a].system}

\* the versions of agent a
VersionsOfAgent(vs, a) == {v \in DOMAIN vs : vs[v].agentId = a}

\* the step of task t is one of spawnAgentsFromPlan
ResolvingStep(t) ==
  /\ tasks[t].stack # <<>>
  /\ Top(t).pc \in {"spawn", "spawnVersion", "spawnAgent", "spawnAgentVersion"}
  /\ tasks'[t] # tasks[t]

\* C40: resolving a plan's agentsToCreate never appends a version to, changes
\* the activeVersionId of, or rewrites the metadata of a system agent
\* (bootstrap, a2a_directory): whatever slug, name or tags a model-produced
\* spec carries, a system agent is never selected as the match.
C40_SystemAgentNeverMatched ==
  [][\A t \in DOMAIN tasks :
       ResolvingStep(t) =>
         /\ \A a \in SystemAgents :
              /\ agents'[a] = agents[a]
              /\ VersionsOfAgent(agentVersions', a) = VersionsOfAgent(agentVersions, a)
         /\ (Top(t).pc = "spawn" =>
               findSimilarAgent(Top(t).atc[Top(t).si]).agent \notin SystemAgents)]_vars

\* the plan with the spec of slug bootstrap has given the bootstrap agent a
\* second version, which is its active version
C40_BootstrapHasVersionOfPlan ==
  \E a \in SystemAgents :
    /\ agents[a].slug = BOOTSTRAP_AGENT_SLUG
    /\ agents[a].active # 1
    /\ agentVersions[agents[a].active].agentId = a
    /\ agentVersions[agents[a].active].systemPrompt = SpecSystemSlug.systemPrompt
    /\ Cardinality(VersionsOfAgent(agentVersions, a)) = 2

====
